---- MODULE Spec2Model ----
(***************************************************************************)
(* Inventory cataloguing server: the items table behind DatabaseStorage,   *)
(* the REST handlers of registerRoutes over it, and the image analysis     *)
(* endpoint with its model fallback cascade and response parsing.          *)
(***************************************************************************)
EXTENDS Integers, Sequences, FiniteSets, TLC

VARIABLES
    store,      \* the items table: live id -> row
    nextId,     \* next value of the serial sequence behind items.id
    clock,      \* the database clock read by DEFAULT NOW()
    req,        \* the item request handled last
    resp,       \* its response
    before,     \* the items table as that request found it
    thrown,     \* whether the storage call of that request threw
    genAI,      \* whether an API key was configured when the server started
    apc,        \* the analysis request: "idle", "calling" or "done"
    tried,      \* the model calls of the analysis request, with their outcome
    reply,      \* what the model that succeeded sent
    aresp,      \* the response of the analysis request
    files,      \* handleBatch: the files selected, in selection order
    cursor,     \* handleBatch: position of the for loop in files
    bpc,        \* handleBatch: the await it stands at, or "idle"
    thumbnail,  \* handleBatch: the resized image of the current file
    done,       \* handleBatch: its local counter of files gone through
    successCount,   \* handleBatch: its local counter of items created
    kpc,        \* handleCapture: the await it stands at, or "idle"
    analysisData,   \* per handler, its local data: the analysis payload it read
    flights,    \* the requests of the page that are in flight
    analyzing,  \* Home state: analyzing
    progress,   \* Home state: progress, as a fraction of 100
    processingCount,    \* Home state: processingCount
    toast,      \* the toast shown last
    items,      \* the list the page fetched
    searchQuery,    \* Home state: searchQuery
    sortBy,     \* Home state: sortBy
    filteredAndSortedItems,     \* Home: the list the page shows (useMemo)
    databaseUrl,    \* db: whether process.env.DATABASE_URL is set
    pool,       \* db: the module's pool, 0 for null, else the instance
    drizzleDb,  \* db: the module's drizzle handle and the pool it wraps
    created,    \* db: how many pools and handles were constructed so far
    dbUse,      \* db: the access made last, and how many were made
    puts        \* the update requests of two clients and where they stand

itemVars == <<store, nextId, clock, req, resp, before, thrown>>

analyzeVars == <<genAI, apc, tried, reply, aresp>>

clientVars == <<files, cursor, bpc, thumbnail, done, successCount, kpc,
                analysisData, flights, analyzing, progress, processingCount, toast>>

viewVars == <<items, searchQuery, sortBy, filteredAndSortedItems>>

dbVars == <<databaseUrl, pool, drizzleDb, created, dbUse>>

putVars == <<puts>>

vars == <<store, nextId, clock, req, resp, before, thrown, genAI, apc, tried,
          reply, aresp, files, cursor, bpc, thumbnail, done, successCount, kpc,
          analysisData, flights, analyzing, progress, processingCount, toast, items,
          searchQuery, sortBy, filteredAndSortedItems, databaseUrl, pool, drizzleDb,
          created, dbUse, puts>>

(***************************************************************************)
(* Bounds of the model.                                                    *)
(***************************************************************************)
\* rows ever inserted (values drawn from the serial sequence)
MaxItems ==
    2

\* last reading of the database clock
MaxTime ==
    1

\* files selected for one batch
MaxFiles ==
    2

\* items in the list the page fetched
MaxListed ==
    2

\* accesses to the db module
MaxAccesses ==
    4

(***************************************************************************)
(* JSON values.  A string is the sequence of its pieces, so that a text    *)
(* can be cut inside one; an array or object is the sequence of its        *)
(* <<key, value>> members (key <<>> in an array).                          *)
(***************************************************************************)
JNull ==
    [t |-> "null", s |-> <<>>, n |-> 0, el |-> <<>>]

JStr(w) ==
    [t |-> "string", s |-> w, n |-> 0, el |-> <<>>]

JNum(k) ==
    [t |-> "number", s |-> <<>>, n |-> k, el |-> <<>>]

JArr(members) ==
    [t |-> "array", s |-> <<>>, n |-> 0, el |-> members]

JObj(members) ==
    [t |-> "object", s |-> <<>>, n |-> 0, el |-> members]

(***************************************************************************)
(* shared/schema: the items table and insertItemSchema.                    *)
(***************************************************************************)
Columns ==
    {"id", "name", "brand", "edition", "year", "identifiers", "vibes",
     "qty", "status", "addedAt", "ambientData", "imageUrl"}

OmittedKeys ==
    {"id", "addedAt"}

\* createInsertSchema(items).omit({id, addedAt}): the keys the schema knows
InsertKeys ==
    Columns \ OmittedKeys

NullableText ==
    {"brand", "edition", "year", "identifiers", "imageUrl"}

IsStringArray(v) ==
    /\ v.t = "array"
    /\ \A i \in 1..Len(v.el) : v.el[i][2].t = "string"

\* the zod type of one key of insertItemSchema
FieldOK(k, v) ==
    CASE k \in {"name", "status"} -> v.t = "string"
      [] k = "qty" -> v.t = "number"
      [] k \in NullableText -> v.t \in {"string", "null"}
      [] k = "vibes" -> v.t = "null" \/ IsStringArray(v)
      [] OTHER -> TRUE

\* passthrough instead of zod's default strip of unknown keys
SchemaKeysPassthrough(body) ==
    DOMAIN body

\* a zod object strips the keys it does not know
SchemaKeys(body) ==
    DOMAIN body \cap InsertKeys

Strip(body) ==
    [k \in SchemaKeys(body) |-> body[k]]

\* the partial schema used where the full one is meant: name not required
ParseOKNameOptional(body) ==
    \A k \in DOMAIN body \cap InsertKeys : FieldOK(k, body[k])

\* insertItemSchema.parse succeeds: name is required
ParseOK(body) ==
    /\ "name" \in DOMAIN body
    /\ \A k \in DOMAIN body \cap InsertKeys : FieldOK(k, body[k])

\* insertItemSchema.partial().parse succeeds: every key optional
PartialParseOK(body) ==
    \A k \in DOMAIN body \cap InsertKeys : FieldOK(k, body[k])

\* the column defaults of the table
ColumnDefault(c) ==
    CASE c = "qty" -> JNum(1)
      [] c = "status" -> JStr(<<"ACTIVE">>)
      [] OTHER -> JNull

(***************************************************************************)
(* DatabaseStorage.                                                        *)
(***************************************************************************)
\* INSERT ... RETURNING: a column takes the supplied value, else its default
\* (id: the next value of the serial sequence, addedAt: NOW())
NewRow(item, id, now) ==
    [c \in Columns |->
        CASE c \in DOMAIN item -> item[c]
          [] c = "id" -> JNum(id)
          [] c = "addedAt" -> JNum(now)
          [] OTHER -> ColumnDefault(c)]

\* an id taken from the rows at hand: one more than the highest stored id
NextvalAboveStored(seq, tbl) ==
    IF DOMAIN tbl = {} THEN 1
    ELSE (CHOOSE i \in DOMAIN tbl : \A j \in DOMAIN tbl : j <= i) + 1

\* serial: the id of a new row is the next value of the sequence, whatever
\* the table holds
Nextval(seq, tbl) ==
    seq

\* an insert that is answered but not stored
InsertRowLost(tbl, row) ==
    tbl

\* the table with the row added under its primary key
InsertRow(tbl, row) ==
    [i \in DOMAIN tbl \cup {row["id"].n} |->
        IF i = row["id"].n THEN row ELSE tbl[i]]

\* UPDATE ... SET: the supplied columns take the supplied values
SetColumns(row, updates) ==
    [c \in Columns |-> IF c \in DOMAIN updates THEN updates[c] ELSE row[c]]

\* ascending instead of descending
ComesBeforeAsc(a, b) ==
    a["addedAt"].n < b["addedAt"].n

\* desc(items.addedAt): a is placed before b
ComesBefore(a, b) ==
    a["addedAt"].n > b["addedAt"].n

\* insert row r into the sorted sequence s, after its equals
RECURSIVE InsertSorted(_, _)
InsertSorted(r, s) ==
    IF s = <<>> THEN <<r>>
    ELSE IF ComesBefore(r, Head(s)) THEN <<r>> \o s
    ELSE <<Head(s)>> \o InsertSorted(r, Tail(s))

\* ORDER BY over the rows in the order the scan delivers them
RECURSIVE OrderBy(_)
OrderBy(scan) ==
    IF scan = <<>> THEN <<>>
    ELSE InsertSorted(scan[Len(scan)], OrderBy(SubSeq(scan, 1, Len(scan) - 1)))

\* the orders in which a scan may deliver the rows of the table
Scans(tbl) ==
    {sc \in [1..Cardinality(DOMAIN tbl) -> DOMAIN tbl] :
        \A i, j \in DOMAIN sc : i # j => sc[i] # sc[j]}

RowsOf(tbl, sc) ==
    [i \in DOMAIN sc |-> tbl[sc[i]]]

\* getItem: the rows WHERE id matches, none or one
SelectById(tbl, id) ==
    IF id \in DOMAIN tbl THEN <<tbl[id]>> ELSE <<>>

\* deleteItem keeping the row
DeleteRowKeep(tbl, id) ==
    tbl

\* deleteItem: DELETE ... WHERE id
DeleteRow(tbl, id) ==
    [i \in DOMAIN tbl \ {id} |-> tbl[i]]

\* an update that writes a whole row: columns not supplied take their defaults
UpdateRowWhole(tbl, id, updates) ==
    [i \in DOMAIN tbl |->
        IF i = id THEN NewRow(updates, tbl[i]["id"].n, tbl[i]["addedAt"].n) ELSE tbl[i]]

\* updateItem: UPDATE ... WHERE id
UpdateRow(tbl, id, updates) ==
    [i \in DOMAIN tbl |-> IF i = id THEN SetColumns(tbl[i], updates) ELSE tbl[i]]

(***************************************************************************)
(* The model's response text and JSON.parse / JSON.stringify over it.  A   *)
(* text is a sequence of pieces: punctuation, the double quote, a run of   *)
(* white space, three backticks, numerals and words.                       *)
(***************************************************************************)
QUOTE ==
    "QUOTE"

\* a double quote inside a string literal, written with its backslash
ESCAPED ==
    "ESCAPED"

FENCE ==
    "FENCE"

WS ==
    "WS"

JUndef ==
    [t |-> "undefined", s |-> <<>>, n |-> 0, el |-> <<>>]

\* numerals of the numbers that occur
Numerals ==
    (0 :> "0") @@ (1 :> "1") @@ (2 :> "2") @@ (7 :> "7") @@ (1999 :> "1999")

NumeralValue(tok) ==
    CHOOSE k \in DOMAIN Numerals : Numerals[k] = tok

IsNumeral(tok) ==
    \E k \in DOMAIN Numerals : Numerals[k] = tok

ParseFail ==
    [ok |-> FALSE, v |-> JUndef, rest |-> <<>>]

Parsed(v, rest) ==
    [ok |-> TRUE, v |-> v, rest |-> rest]

RECURSIVE SkipWs(_)
SkipWs(t) ==
    IF t # <<>> /\ Head(t) = WS THEN SkipWs(Tail(t)) ELSE t

RECURSIVE DropTrailingWs(_)
DropTrailingWs(t) ==
    IF t # <<>> /\ t[Len(t)] = WS THEN DropTrailingWs(SubSeq(t, 1, Len(t) - 1)) ELSE t

\* String.prototype.trim
Trim(t) ==
    DropTrailingWs(SkipWs(t))

\* obj[key] = value: an own key keeps its place, a new one goes last
SetMember(members, key, value) ==
    IF \E i \in 1..Len(members) : members[i][1] = key
    THEN [i \in 1..Len(members) |->
             IF members[i][1] = key THEN <<key, value>> ELSE members[i]]
    ELSE Append(members, <<key, value>>)

\* the rest of a string literal after its opening quote
RECURSIVE ParseStringRest(_, _)
ParseStringRest(t, acc) ==
    IF t = <<>> THEN ParseFail
    ELSE IF Head(t) = QUOTE THEN Parsed(JStr(acc), Tail(t))
    ELSE IF Head(t) = ESCAPED THEN ParseStringRest(Tail(t), Append(acc, QUOTE))
    ELSE ParseStringRest(Tail(t), Append(acc, Head(t)))

RECURSIVE ParseValue(_)
RECURSIVE ParseElements(_, _)
RECURSIVE ParseMembers(_, _)

\* the elements of an array after "[" or after a comma
ParseElements(t0, acc) ==
    LET t == SkipWs(t0) IN
    IF t # <<>> /\ Head(t) = "]" /\ acc = <<>> THEN Parsed(JArr(<<>>), Tail(t))
    ELSE LET r == ParseValue(t)
             u == SkipWs(r.rest)
         IN  IF ~r.ok \/ u = <<>> THEN ParseFail
             ELSE IF Head(u) = ","
                  THEN ParseElements(Tail(u), Append(acc, <<<<>>, r.v>>))
             ELSE IF Head(u) = "]"
                  THEN Parsed(JArr(Append(acc, <<<<>>, r.v>>)), Tail(u))
             ELSE ParseFail

\* the members of an object after "{" or after a comma
ParseMembers(t0, acc) ==
    LET t == SkipWs(t0) IN
    IF t # <<>> /\ Head(t) = "}" /\ acc = <<>> THEN Parsed(JObj(<<>>), Tail(t))
    ELSE IF t = <<>> \/ Head(t) # QUOTE THEN ParseFail
    ELSE LET k == ParseStringRest(Tail(t), <<>>)
             c == SkipWs(k.rest)
         IN  IF ~k.ok \/ c = <<>> \/ Head(c) # ":" THEN ParseFail
             ELSE LET r == ParseValue(Tail(c))
                      u == SkipWs(r.rest)
                  IN  IF ~r.ok \/ u = <<>> THEN ParseFail
                      ELSE IF Head(u) = ","
                           THEN ParseMembers(Tail(u), SetMember(acc, k.v.s, r.v))
                      ELSE IF Head(u) = "}"
                           THEN Parsed(JObj(SetMember(acc, k.v.s, r.v)), Tail(u))
                      ELSE ParseFail

ParseValue(t0) ==
    LET t == SkipWs(t0) IN
    IF t = <<>> THEN ParseFail
    ELSE CASE Head(t) = "null" -> Parsed(JNull, Tail(t))
           [] IsNumeral(Head(t)) -> Parsed(JNum(NumeralValue(Head(t))), Tail(t))
           [] Head(t) = QUOTE -> ParseStringRest(Tail(t), <<>>)
           [] Head(t) = "[" -> ParseElements(Tail(t), <<>>)
           [] Head(t) = "{" -> ParseMembers(Tail(t), <<>>)
           [] OTHER -> ParseFail

\* JSON.parse: one value, white space around it, nothing else; else it throws
JSONParse(text) ==
    LET r == ParseValue(text) IN
    IF r.ok /\ SkipWs(r.rest) = <<>> THEN Parsed(r.v, <<>>) ELSE ParseFail

\* the content of a string literal: a double quote is escaped
Escape(pieces) ==
    [i \in 1..Len(pieces) |-> IF pieces[i] = QUOTE THEN ESCAPED ELSE pieces[i]]

RECURSIVE Stringify(_)
RECURSIVE StringifyList(_, _)

\* the members of an array or object, comma separated; an undefined member
\* of an object is left out, an undefined element of an array is null
StringifyList(members, inObject) ==
    IF members = <<>> THEN <<>>
    ELSE LET m == Head(members)
             rest == StringifyList(Tail(members), inObject)
             one == IF inObject
                    THEN <<QUOTE>> \o Escape(m[1]) \o <<QUOTE, ":">> \o Stringify(m[2])
                    ELSE IF m[2].t = "undefined" THEN <<"null">> ELSE Stringify(m[2])
         IN  IF inObject /\ m[2].t = "undefined" THEN rest
             ELSE IF rest = <<>> THEN one
             ELSE one \o <<",">> \o rest

\* JSON.stringify
Stringify(v) ==
    CASE v.t = "null" -> <<"null">>
      [] v.t = "number" -> <<Numerals[v.n]>>
      [] v.t = "string" -> <<QUOTE>> \o Escape(v.s) \o <<QUOTE>>
      [] v.t = "array" -> <<"[">> \o StringifyList(v.el, FALSE) \o <<"]">>
      [] v.t = "object" -> <<"{">> \o StringifyList(v.el, TRUE) \o <<"}">>
      [] OTHER -> <<>>

\* positions of the three-backtick pieces of a text
FencePositions(text) ==
    {i \in 1..Len(text) : text[i] = FENCE}

Min(S) ==
    CHOOSE x \in S : \A y \in S : x <= y

\* the lazy group ends at the first fence at or after `from`
FenceClose(text, from) ==
    Min({j \in FencePositions(text) : j >= from})

\* responseText.match(/```(?:json)?\s*([\s\S]*?)```/): the captured group
FenceMatch(text) ==
    IF Cardinality(FencePositions(text)) < 2
    THEN [found |-> FALSE, group |-> <<>>]
    ELSE LET open == Min(FencePositions(text))
             afterTag == IF text[open + 1] = "json" THEN open + 2 ELSE open + 1
             skipped == SkipWs(SubSeq(text, afterTag, Len(text)))
             start == Len(text) - Len(skipped) + 1
             close == FenceClose(text, start)
         IN  [found |-> TRUE, group |-> SubSeq(text, start, close - 1)]

(***************************************************************************)
(* POST /api/analyze/upload: normalization of the parsed model output.     *)
(***************************************************************************)
\* data[key]: an own member of an object, else undefined
GetProp(data, key) ==
    IF data.t = "object" /\ \E i \in 1..Len(data.el) : data.el[i][1] = key
    THEN data.el[CHOOSE i \in 1..Len(data.el) : data.el[i][1] = key][2]
    ELSE JUndef

\* the value counts as true in a condition
Truthy(v) ==
    CASE v.t \in {"undefined", "null"} -> FALSE
      [] v.t = "number" -> v.n # 0
      [] v.t = "string" -> v.s # <<>>
      [] OTHER -> TRUE

RECURSIVE JoinElements(_)
RECURSIVE JsString(_)

\* Array.prototype.join(","): null and undefined elements are empty
JoinElements(members) ==
    IF members = <<>> THEN <<>>
    ELSE LET one == IF Head(members)[2].t \in {"null", "undefined"} THEN <<>>
                    ELSE JsString(Head(members)[2])
         IN  IF Len(members) = 1 THEN one
             ELSE one \o <<",">> \o JoinElements(Tail(members))

\* String(v)
JsString(v) ==
    CASE v.t = "string" -> v.s
      [] v.t = "number" -> <<Numerals[v.n]>>
      [] v.t = "null" -> <<"null">>
      [] v.t = "undefined" -> <<"undefined">>
      [] v.t = "array" -> JoinElements(v.el)
      [] OTHER -> <<"[object Object]">>

\* typeof v === 'object'
TypeofObject(v) ==
    v.t \in {"object", "array", "null"}

\* v ? String(v) : null
StringOrNull(v) ==
    IF Truthy(v) THEN JStr(JsString(v)) ELSE JNull

\* {...data}: the own enumerable members (index keys for arrays and strings)
Spread(data) ==
    CASE data.t = "object" -> data.el
      [] data.t = "array" ->
            [i \in 1..Len(data.el) |-> <<<<Numerals[i - 1]>>, data.el[i][2]>>]
      [] data.t = "string" ->
            [i \in 1..Len(data.s) |-> <<<<Numerals[i - 1]>>, JStr(<<data.s[i]>>)>>]
      [] OTHER -> <<>>

RECURSIVE SetMembers(_, _, _)
SetMembers(members, keys, data) ==
    IF keys = <<>> THEN members
    ELSE SetMembers(SetMember(members, <<Head(keys)>>, GetProp(data, <<Head(keys)>>)),
                    Tail(keys), data)

\* the data URL built from the uploaded file
imageDataUrl ==
    JStr(<<"data:image">>)

\* the payload with the four named fields only in ambientData, identifiers
\* passed on as sent
NormalizedUnspread(data) ==
    JObj(<< <<<<"name">>, IF Truthy(GetProp(data, <<"name">>))
                          THEN GetProp(data, <<"name">>)
                          ELSE JStr(<<"Unknown Item">>)>>,
            <<<<"brand">>, StringOrNull(GetProp(data, <<"brand">>))>>,
            <<<<"edition">>, StringOrNull(GetProp(data, <<"edition">>))>>,
            <<<<"year">>, StringOrNull(GetProp(data, <<"year">>))>>,
            <<<<"identifiers">>, GetProp(data, <<"identifiers">>)>>,
            <<<<"vibes">>, IF GetProp(data, <<"vibes">>).t = "array"
                           THEN GetProp(data, <<"vibes">>)
                           ELSE JArr(<<>>)>>,
            <<<<"ambientData">>,
              JObj(SetMembers(<<>>, <<"type", "condition", "rarity", "notes">>, data))>>,
            <<<<"imageUrl">>, imageDataUrl>> >>)

\* the normalized payload
Normalized(data) ==
    JObj(<< <<<<"name">>, IF Truthy(GetProp(data, <<"name">>))
                          THEN GetProp(data, <<"name">>)
                          ELSE JStr(<<"Unknown Item">>)>>,
            <<<<"brand">>, StringOrNull(GetProp(data, <<"brand">>))>>,
            <<<<"edition">>, StringOrNull(GetProp(data, <<"edition">>))>>,
            <<<<"year">>, StringOrNull(GetProp(data, <<"year">>))>>,
            <<<<"identifiers">>,
              IF TypeofObject(GetProp(data, <<"identifiers">>))
              THEN JStr(Stringify(GetProp(data, <<"identifiers">>)))
              ELSE StringOrNull(GetProp(data, <<"identifiers">>))>>,
            <<<<"vibes">>, IF GetProp(data, <<"vibes">>).t = "array"
                           THEN GetProp(data, <<"vibes">>)
                           ELSE JArr(<<>>)>>,
            <<<<"ambientData">>,
              JObj(SetMembers(Spread(data),
                              <<"type", "condition", "rarity", "notes">>, data))>>,
            <<<<"imageUrl">>, imageDataUrl>> >>)

AResponse(status, body, message) ==
    [status |-> status, body |-> body, message |-> message]

\* an error answered as a success
CatchReplySwallowed ==
    AResponse(200, <<>>, "Analysis failed")

\* the handler's catch: every thrown error is answered the same way
CatchReply ==
    AResponse(500, <<>>, "Analysis failed")

\* a text that parses neither way taken for an empty object
ParseResponseLenient(text) ==
    LET direct == JSONParse(text)
        jsonMatch == FenceMatch(text)
    IN  IF direct.ok THEN direct
        ELSE IF jsonMatch.found /\ JSONParse(Trim(jsonMatch.group)).ok
             THEN JSONParse(Trim(jsonMatch.group))
        ELSE Parsed(JObj(<<>>), <<>>)

\* the parsed response text: direct parse, else the fenced block
ParseResponse(text) ==
    LET direct == JSONParse(text)
        jsonMatch == FenceMatch(text)
    IN  IF direct.ok THEN direct
        ELSE IF jsonMatch.found THEN JSONParse(Trim(jsonMatch.group))
        ELSE ParseFail

\* the handler from the model's response text on: parse, normalize, answer
AnalyzeReply(text) ==
    LET data == ParseResponse(text) IN
    IF text = <<>> THEN CatchReply
    ELSE IF ~data.ok THEN CatchReply
    ELSE IF data.v.t = "null" THEN CatchReply
    ELSE AResponse(200, Stringify(Normalized(data.v)), "")

(***************************************************************************)
(* What the model may send: a JSON document, bare or in a fenced block     *)
(* with or without the json tag, or text that is no JSON.                  *)
(***************************************************************************)
Member(key, value) ==
    <<<<key>>, value>>

Element(value) ==
    <<<<>>, value>>

Docs ==
    { JObj(<<Member("name", JStr(<<"a">>)), Member("brand", JStr(<<"x">>)),
             Member("vibes", JArr(<<Element(JStr(<<"v">>))>>))>>),
      JObj(<<Member("name", JStr(<<"a">>)), Member("brand", JNull),
             Member("year", JNum(1999)), Member("identifiers", JNull)>>),
      JObj(<<Member("brand", JStr(<<"x">>)),
             Member("identifiers", JObj(<<Member("isbn", JNum(7))>>))>>),
      JObj(<<Member("name", JStr(<<"a">>)),
             Member("notes", JStr(<<"see", FENCE, "x", FENCE>>))>>),
      JObj(<<Member("name", JNum(7)), Member("vibes", JStr(<<"v">>))>>),
      JObj(<<Member("name", JStr(<<>>)), Member("type", JStr(<<"book">>))>>),
      JObj(<<Member("name", JStr(<<"a">>)), Member("brand", JStr(<<"x">>)),
             Member("edition", JStr(<<"first">>)), Member("year", JStr(<<"1999">>)),
             Member("identifiers", JStr(<<"isbn">>)),
             Member("vibes", JArr(<<Element(JStr(<<"v">>))>>))>>),
      JStr(<<"a">>),
      JArr(<<Element(JNum(7))>>),
      JNull }

Wraps ==
    {"bare", "fence", "json"}

Wrap(text, w) ==
    CASE w = "fence" -> <<FENCE, WS>> \o text \o <<WS, FENCE>>
      [] w = "json" -> <<FENCE, "json", WS>> \o text \o <<WS, FENCE>>
      [] OTHER -> text

NotJson ==
    { <<>>,
      <<"sorry">>,
      <<"here", WS, FENCE, "json", WS, "{", WS, FENCE>>,
      <<"here", WS, FENCE, WS, "{", "}", WS, FENCE, WS, "done">> }

Replies ==
    {[doc |-> d, wrap |-> w, text |-> Wrap(Stringify(d), w)] : d \in Docs, w \in Wraps}
        \cup {[doc |-> JUndef, wrap |-> "raw", text |-> t] : t \in NotJson}

NoReply ==
    [doc |-> JUndef, wrap |-> "none", text |-> <<>>]

\* the handler's answer to each reply
Answers ==
    [r \in Replies |-> AnalyzeReply(r.text)]

(***************************************************************************)
(* POST /api/analyze/upload: the model fallback cascade.                    *)
(***************************************************************************)
modelsToTry ==
    <<"gemini-2.0-flash", "gemini-2.0-flash-exp", "gemini-1.5-flash",
      "gemini-1.5-flash-latest", "gemini-pro-vision", "gemini-pro">>

Call(model, ok) ==
    [model |-> model, ok |-> ok]

\* the loop gives up after the first failure
ExhaustedAfterFirst(calls) ==
    Len(calls) >= 1

\* the for loop over modelsToTry has run out of models
Exhausted(calls) ==
    Len(calls) = Len(modelsToTry)

(***************************************************************************)
(* Requests and responses.                                                 *)
(***************************************************************************)
NoBody ==
    << >>

Response(op, status, rows, message) ==
    [op |-> op, status |-> status, body |-> rows, message |-> message]

Request(op, id, body, scan) ==
    [op |-> op, id |-> id, body |-> body, scan |-> scan]

\* request bodies: valid, partial, with foreign keys, empty, ill-typed
Bodies ==
    { [name |-> JStr(<<"a">>)],
      [name |-> JStr(<<"b">>), brand |-> JStr(<<"x">>)],
      [brand |-> JNull],
      [name |-> JStr(<<"b">>), id |-> JNum(9), addedAt |-> JNum(7)],
      [id |-> JNum(9)],
      NoBody,
      [name |-> JStr(<<"a">>), qty |-> JStr(<<"many">>)],
      [name |-> JNum(7)] }

\* ids a request path may carry: assigned ones and one never assigned
PathIds ==
    1..(MaxItems + 1)

\* a fraction num/den
Fraction(num, den) ==
    [num |-> num, den |-> den]

Toast(title, count, total) ==
    [title |-> title, count |-> count, total |-> total]

\* no handle of the db module
NoHandle ==
    [n |-> 0, client |-> 0]

DbUse(via, threw, client, handle, count) ==
    [via |-> via, threw |-> threw, client |-> client, handle |-> handle, count |-> count]

\* the db module as loaded: nothing constructed
ModuleLoaded ==
    /\ pool = 0
    /\ drizzleDb = NoHandle
    /\ created = [pools |-> 0, handles |-> 0]
    /\ dbUse = DbUse("none", FALSE, 0, NoHandle, 0)

Clients ==
    {1, 2}

Put(pc, id, body, status) ==
    [pc |-> pc, id |-> id, body |-> body, status |-> status]

\* no client has sent an update
NoPuts ==
    [c \in Clients |-> Put("idle", 0, NoBody, 0)]

\* the page as mounted: no handler running, the state hooks at their initial
\* values, nothing fetched yet
HomeMounted ==
    /\ files = <<>>
    /\ cursor = 0
    /\ bpc = "idle"
    /\ thumbnail = JUndef
    /\ done = 0
    /\ successCount = 0
    /\ kpc = "idle"
    /\ analysisData = [batch |-> JUndef, capture |-> JUndef]
    /\ flights = {}
    /\ analyzing = FALSE
    /\ progress = Fraction(0, 1)
    /\ processingCount = [done |-> 0, total |-> 0]
    /\ toast = Toast("", 0, 0)
    /\ items = <<>>
    /\ searchQuery = <<>>
    /\ sortBy = "newest"
    /\ filteredAndSortedItems = <<>>

Init ==
    /\ store = << >>
    /\ nextId = 1
    /\ clock = 0
    /\ req = Request("none", 0, NoBody, <<>>)
    /\ resp = Response("none", 0, <<>>, "")
    /\ before = << >>
    /\ thrown = FALSE
    /\ HomeMounted
    /\ databaseUrl = TRUE
    /\ ModuleLoaded
    /\ puts = NoPuts
    /\ genAI = TRUE
    /\ apc = "idle"
    /\ tried = <<>>
    /\ reply = NoReply
    /\ aresp = AResponse(0, <<>>, "")

\* the server started with or without an API key
InitAnalyze ==
    /\ store = << >>
    /\ nextId = 1
    /\ clock = 0
    /\ req = Request("none", 0, NoBody, <<>>)
    /\ resp = Response("none", 0, <<>>, "")
    /\ before = << >>
    /\ thrown = FALSE
    /\ HomeMounted
    /\ databaseUrl = TRUE
    /\ ModuleLoaded
    /\ puts = NoPuts
    /\ genAI \in BOOLEAN
    /\ apc = "idle"
    /\ tried = <<>>
    /\ reply = NoReply
    /\ aresp = AResponse(0, <<>>, "")

(***************************************************************************)
(* registerRoutes: items CRUD.                                             *)
(***************************************************************************)
\* GET /api/items
ListItems ==
    \E sc \in Scans(store) :
        /\ req' = Request("list", 0, NoBody, sc)
        /\ resp' = Response("list", 200, OrderBy(RowsOf(store, sc)), "")
        /\ before' = store
        /\ UNCHANGED <<store, nextId, clock>>
        /\ UNCHANGED <<analyzeVars, clientVars, viewVars, dbVars, putVars>>
        /\ thrown' = FALSE

\* GET /api/items/:id: 404 when the lookup misses
GetResponse(tbl, id) ==
    IF SelectById(tbl, id) = <<>>
    THEN Response("get", 404, <<>>, "Item not found")
    ELSE Response("get", 200, SelectById(tbl, id), "")

GetItem ==
    \E id \in PathIds :
        /\ req' = Request("get", id, NoBody, <<>>)
        /\ resp' = GetResponse(store, id)
        /\ before' = store
        /\ UNCHANGED <<store, nextId, clock>>
        /\ UNCHANGED <<analyzeVars, clientVars, viewVars, dbVars, putVars>>
        /\ thrown' = FALSE

\* POST /api/items for one body
CreateHandled(body) ==
    /\ req' = Request("create", 0, body, <<>>)
    /\ before' = store
    /\ thrown' = FALSE
    /\ IF ~ParseOK(body)
       THEN /\ resp' = Response("create", 400, <<>>, "zod")
            /\ UNCHANGED <<store, nextId, clock>>
       ELSE \E now \in clock..MaxTime :
            /\ nextId <= MaxItems
            /\ store' = InsertRow(store, NewRow(Strip(body), Nextval(nextId, store), now))
            /\ nextId' = nextId + 1
            /\ clock' = now
            /\ resp' = Response("create", 201,
                                <<NewRow(Strip(body), Nextval(nextId, store), now)>>, "")

\* the status POST /api/items answers a body with
CreateStatus(body) ==
    IF ParseOK(body) THEN 201 ELSE 400

\* POST /api/items
PostItem ==
    \E body \in Bodies :
        /\ CreateHandled(body)
        /\ UNCHANGED <<analyzeVars, clientVars, viewVars, dbVars, putVars>>

\* PUT /api/items/:id for one id and body
UpdateHandled(id, body) ==
    /\ req' = Request("update", id, body, <<>>)
    /\ before' = store
    /\ UNCHANGED <<nextId, clock>>
    /\ thrown' = FALSE
    /\ IF ~PartialParseOK(body) \/ SchemaKeys(body) = {}
       THEN \* parse throws a ZodError, or db.update().set() is given no
            \* column and throws: both land in the catch, 400
            /\ resp' = Response("update", 400, <<>>, "Update failed")
            /\ UNCHANGED store
       ELSE /\ store' = UpdateRow(store, id, Strip(body))
            /\ resp' = Response("update", 200,
                                SelectById(UpdateRow(store, id, Strip(body)), id), "")

\* PUT /api/items/:id
PutItem ==
    \E id \in PathIds, body \in Bodies :
        /\ UpdateHandled(id, body)
        /\ UNCHANGED <<analyzeVars, clientVars, viewVars, dbVars, putVars>>

\* DELETE /api/items/:id
DeleteItem ==
    \E id \in PathIds :
        /\ req' = Request("delete", id, NoBody, <<>>)
        /\ before' = store
        /\ store' = DeleteRow(store, id)
        /\ resp' = Response("delete", 204, <<>>, "")
        /\ UNCHANGED <<nextId, clock>>
        /\ UNCHANGED <<analyzeVars, clientVars, viewVars, dbVars, putVars>>
        /\ thrown' = FALSE

Next ==
    \/ ListItems
    \/ GetItem
    \/ PostItem
    \/ PutItem
    \/ DeleteItem

Spec ==
    Init /\ [][Next]_vars

(***************************************************************************)
(* registerRoutes: POST /api/analyze/upload.  A step per await: the        *)
(* request up to the first model call, then each return of a model call    *)
(* with everything the handler does after it.                              *)
(***************************************************************************)
\* the upload is looked at before the credentials
AnalyzeUploadFileFirst ==
    \E file \in BOOLEAN :
        /\ apc # "calling"
        /\ tried' = <<>>
        /\ reply' = NoReply
        /\ IF ~file
           THEN /\ aresp' = AResponse(400, <<>>, "No image provided")
                /\ apc' = "done"
           ELSE IF ~genAI
           THEN /\ aresp' = AResponse(500, <<>>, "AI not configured - missing API key")
                /\ apc' = "done"
           ELSE /\ aresp' = AResponse(0, <<>>, "")
                /\ apc' = "calling"
        /\ UNCHANGED <<itemVars, genAI, clientVars, viewVars, dbVars, putVars>>

AnalyzeUpload ==
    \E file \in BOOLEAN :
        /\ apc # "calling"
        /\ tried' = <<>>
        /\ reply' = NoReply
        /\ IF ~genAI
           THEN /\ aresp' = AResponse(500, <<>>, "AI not configured - missing API key")
                /\ apc' = "done"
           ELSE IF ~file
           THEN /\ aresp' = AResponse(400, <<>>, "No image provided")
                /\ apc' = "done"
           ELSE /\ aresp' = AResponse(0, <<>>, "")
                /\ apc' = "calling"
        /\ UNCHANGED <<itemVars, genAI, clientVars, viewVars, dbVars, putVars>>

\* generateContent throws: next model, or the last error is thrown on
ModelFails ==
    /\ apc = "calling"
    /\ tried' = Append(tried, Call(modelsToTry[Len(tried) + 1], FALSE))
    /\ IF Exhausted(tried')
       THEN /\ aresp' = CatchReply
            /\ apc' = "done"
       ELSE UNCHANGED <<aresp, apc>>
    /\ UNCHANGED <<itemVars, genAI, reply, clientVars, viewVars, dbVars, putVars>>

\* a response that cannot be used counts as a failed call: the next model
ModelSucceedsOrFallsThrough ==
    \E r \in Replies :
        /\ apc = "calling"
        /\ tried' = Append(tried, Call(modelsToTry[Len(tried) + 1], TRUE))
        /\ IF Answers[r].status = 200 \/ Exhausted(tried')
           THEN /\ reply' = r
                /\ aresp' = Answers[r]
                /\ apc' = "done"
           ELSE UNCHANGED <<reply, aresp, apc>>
        /\ UNCHANGED <<itemVars, genAI, clientVars, viewVars, dbVars, putVars>>

\* generateContent returns: break, parse, normalize, answer
ModelSucceeds ==
    \E r \in Replies :
        /\ apc = "calling"
        /\ tried' = Append(tried, Call(modelsToTry[Len(tried) + 1], TRUE))
        /\ reply' = r
        /\ aresp' = Answers[r]
        /\ apc' = "done"
        /\ UNCHANGED <<itemVars, genAI, clientVars, viewVars, dbVars, putVars>>

NextAnalyze ==
    \/ PostItem
    \/ AnalyzeUpload
    \/ ModelFails
    \/ ModelSucceeds

SpecAnalyze ==
    InitAnalyze /\ [][NextAnalyze]_vars

(***************************************************************************)
(* registerRoutes: GET /api/export, and the item handlers when the storage *)
(* call rejects.  The server runs against a database that may already hold *)
(* rows.                                                                   *)
(***************************************************************************)
\* Date.prototype.toISOString of a column value; item.addedAt?.
ToISOString(v) ==
    IF v.t = "number" THEN JStr(<<"T", Numerals[v.n]>>) ELSE JUndef

\* the ambient_data of an export entry: the item's bag, then the four keys
ExportAmbient(item) ==
    JObj(SetMember(SetMember(SetMember(SetMember(
            Spread(item["ambientData"]),
            <<"ai_confidence">>, JNum(1)),
            <<"year">>, item["year"]),
            <<"edition">>, item["edition"]),
            <<"vibes">>, item["vibes"]))

\* an entry without its ambient_data
ExportEntryFlat(item) ==
    [name |-> item["name"], qty |-> item["qty"], status |-> item["status"],
     addedAt |-> ToISOString(item["addedAt"]), ambient_data |-> JUndef]

\* items.map(item => ({...}))
ExportEntry(item) ==
    [name |-> item["name"], qty |-> item["qty"], status |-> item["status"],
     addedAt |-> ToISOString(item["addedAt"]), ambient_data |-> ExportAmbient(item)]

ExportData(rows) ==
    [i \in DOMAIN rows |-> ExportEntry(rows[i])]

\* GET /api/export
ExportItems ==
    \E sc \in Scans(store) :
        /\ req' = Request("export", 0, NoBody, sc)
        /\ resp' = Response("export", 200, ExportData(OrderBy(RowsOf(store, sc))), "")
        /\ before' = store
        /\ thrown' = FALSE
        /\ UNCHANGED <<store, nextId, clock>>
        /\ UNCHANGED <<analyzeVars, clientVars, viewVars, dbVars, putVars>>

\* what becomes of a rejection that no handler catches: the router answers
\* 500 or the request is left without an answer (status 0)
Uncaught ==
    {500, 0}

\* the request ends without the store having changed
Failed(op, id, body, status, message) ==
    /\ req' = Request(op, id, body, <<>>)
    /\ resp' = Response(op, status, <<>>, message)
    /\ before' = store
    /\ thrown' = TRUE
    /\ UNCHANGED <<store, nextId, clock>>
    /\ UNCHANGED <<analyzeVars, clientVars, viewVars, dbVars, putVars>>

\* GET /api/items, storage.getItems() rejects: no try around it
ListItemsThrows ==
    \E status \in Uncaught : Failed("list", 0, NoBody, status, "")

\* GET /api/items/:id, storage.getItem() rejects: no try around it
GetItemThrows ==
    \E id \in PathIds, status \in Uncaught : Failed("get", id, NoBody, status, "")

\* POST /api/items, storage.createItem() rejects: the catch, not a ZodError
PostItemThrows ==
    \E body \in Bodies :
        /\ ParseOK(body)
        /\ Failed("create", 0, body, 500, "Internal Server Error")

\* PUT /api/items/:id, storage.updateItem() rejects: the catch answers 400
PutItemThrows ==
    \E id \in PathIds, body \in Bodies :
        /\ PartialParseOK(body)
        /\ SchemaKeys(body) # {}
        /\ Failed("update", id, body, 400, "Update failed")

\* DELETE /api/items/:id, storage.deleteItem() rejects: no try around it
DeleteItemThrows ==
    \E id \in PathIds, status \in Uncaught : Failed("delete", id, NoBody, status, "")

\* GET /api/export, storage.getItems() rejects: no try around it
ExportItemsThrows ==
    \E status \in Uncaught : Failed("export", 0, NoBody, status, "")

\* an item as the page creates it from an analysis
AnalysedItem ==
    [name |-> JStr(<<"a">>), year |-> JStr(<<"1999">>),
     vibes |-> JArr(<<Element(JStr(<<"v">>))>>),
     ambientData |-> JObj(<<Member("type", JStr(<<"book">>)),
                            Member("year", JStr(<<"7">>))>>)]

\* the server starts against an empty table or one that holds a row
InitStocked ==
    /\ \/ store = << >> /\ nextId = 1
       \/ store = InsertRow(<< >>, NewRow(AnalysedItem, 1, 0)) /\ nextId = 2
    /\ clock = 0
    /\ req = Request("none", 0, NoBody, <<>>)
    /\ resp = Response("none", 0, <<>>, "")
    /\ before = store
    /\ thrown = FALSE
    /\ HomeMounted
    /\ databaseUrl = TRUE
    /\ ModuleLoaded
    /\ puts = NoPuts
    /\ genAI = TRUE
    /\ apc = "idle"
    /\ tried = <<>>
    /\ reply = NoReply
    /\ aresp = AResponse(0, <<>>, "")

NextFaulty ==
    \/ PostItem
    \/ DeleteItem
    \/ ExportItems
    \/ PutItemThrows
    \/ PostItemThrows
    \/ ListItemsThrows
    \/ GetItemThrows
    \/ DeleteItemThrows
    \/ ExportItemsThrows

SpecFaulty ==
    InitStocked /\ [][NextFaulty]_vars

(***************************************************************************)
(* Home: handleBatch and handleCapture.  A step per await: the handler up  *)
(* to its first await, then each settling of the promise it awaits with    *)
(* everything the handler does up to the next await or its end.  A request *)
(* takes effect on the server in the step in which its promise settles.    *)
(***************************************************************************)
batchLocals == <<files, cursor, bpc, thumbnail, done, successCount>>

\* resizeImage: the data URL of the downscaled JPEG
resizeImage(file) ==
    JStr(<<"data:image/jpeg">>)

Flight(by, kind, file) ==
    [by |-> by, kind |-> kind, file |-> file]

\* the handler goes on while its request is still in flight
LandedUnawaited(fl, f) ==
    fl

\* the awaited request has settled
Landed(fl, f) ==
    fl \ {f}

\* res.ok
ResOk(status) ==
    status \in 200..299

\* apiRequest resolves: it throws on a response that is not ok
ApiRequestOk(status) ==
    ResOk(status)

\* the object a JSON value denotes, as a request body
BodyOf(obj) ==
    [k \in {obj.el[i][1][1] : i \in 1..Len(obj.el)} |-> GetProp(obj, <<k>>)]

\* the body the server reads: JSON.stringify by the page, parsed by the server
PostedBody(obj) ==
    BodyOf(JSONParse(Stringify(obj)).v)

\* { ...data, imageUrl: thumbnail }
BatchItem(payload, image) ==
    JObj(SetMember(Spread(payload), <<"imageUrl">>, image))

\* the replies the model gives to the page's uploads
PageReplies ==
    {r \in Replies : /\ r.wrap = "bare"
                     /\ GetProp(r.doc, <<"vibes">>).t \in {"array", "string"}
                     /\ GetProp(r.doc, <<"edition">>).t = "undefined"}

\* the answers of POST /api/analyze/upload that the page meets
PageAnswers ==
    {Answers[r] : r \in PageReplies} \cup {CatchReply}

\* what res.json() gives the page for each answer that is ok
PagePayload ==
    [res \in {a \in PageAnswers : ResOk(a.status)} |-> JSONParse(res.body).v]

PagePayloads ==
    {PagePayload[res] : res \in DOMAIN PagePayload}

Thumbnails ==
    {resizeImage(f) : f \in 1..MaxFiles}

\* the body handleBatch posts for each payload and thumbnail
BatchBodies ==
    [d \in PagePayloads, im \in Thumbnails |-> PostedBody(BatchItem(d, im))]

\* the body handleCapture posts for each payload: the payload as it is
CaptureBodies ==
    [d \in PagePayloads |-> PostedBody(d)]

\* done++ inside the try: a file that failed is not counted
DoneAfterSuccessOnly(d, success) ==
    IF success THEN d + 1 ELSE d

\* done++ after the try/catch
DoneAfter(d, success) ==
    d + 1

\* a failure leaves the loop
LoopEndsOnFailure(c, n, success) ==
    c = n \/ ~success

\* the for loop over files has run out of files
LoopEnds(c, n, success) ==
    c = n

\* handleBatch from the end of the try/catch of one file to the next await,
\* or to its end after the last file
AfterFile(success) ==
    /\ done' = DoneAfter(done, success)
    /\ successCount' = IF success THEN successCount + 1 ELSE successCount
    /\ thumbnail' = JUndef
    /\ analysisData' = [analysisData EXCEPT !.batch = JUndef]
    /\ UNCHANGED files
    /\ IF LoopEnds(cursor, Len(files), success)
       THEN /\ toast' = Toast("Batch complete", successCount', Len(files))
            /\ analyzing' = FALSE
            /\ progress' = Fraction(0, 1)
            /\ processingCount' = [done |-> 0, total |-> 0]
            /\ bpc' = "idle"
            /\ cursor' = 0
       ELSE /\ processingCount' = [done |-> done', total |-> Len(files)]
            /\ progress' = Fraction(done' * 100, Len(files))
            /\ cursor' = cursor + 1
            /\ bpc' = "resize"
            /\ UNCHANGED <<analyzing, toast>>

\* handleBatch up to the first resizeImage
HandleBatch ==
    \E n \in 0..MaxFiles :
        /\ bpc = "idle"
        /\ IF n = 0
           THEN UNCHANGED vars
           ELSE /\ files' = [i \in 1..n |-> i]
                /\ analyzing' = TRUE
                /\ processingCount' = [done |-> 0, total |-> n]
                /\ done' = 0
                /\ successCount' = 0
                /\ cursor' = 1
                /\ bpc' = "resize"
                /\ UNCHANGED <<thumbnail, kpc, analysisData, flights, progress, toast>>
                /\ UNCHANGED <<itemVars, analyzeVars, viewVars, dbVars, putVars>>

\* resizeImage settles: the upload is sent, or the catch
ResizeImageSettles ==
    /\ bpc = "resize"
    /\ UNCHANGED <<itemVars, analyzeVars, viewVars, dbVars, putVars, kpc>>
    /\ \/ /\ thumbnail' = resizeImage(files[cursor])
          /\ flights' = flights \cup {Flight("batch", "analyze", files[cursor])}
          /\ bpc' = "analyze"
          /\ UNCHANGED <<files, cursor, done, successCount, analysisData,
                         analyzing, progress, processingCount, toast>>
       \/ /\ UNCHANGED flights
          /\ AfterFile(FALSE)

\* the upload of handleBatch settles: the item is posted, or the file is over
BatchAnalyzeSettles ==
    /\ bpc = "analyze"
    /\ UNCHANGED <<itemVars, analyzeVars, viewVars, dbVars, putVars, kpc>>
    /\ \/ \E res \in PageAnswers :
            IF ResOk(res.status)
            THEN /\ analysisData' = [analysisData EXCEPT !.batch = PagePayload[res]]
                 /\ flights' = Landed(flights, Flight("batch", "analyze", files[cursor]))
                                   \cup {Flight("batch", "create", files[cursor])}
                 /\ bpc' = "create"
                 /\ UNCHANGED <<files, cursor, thumbnail, done, successCount,
                                analyzing, progress, processingCount, toast>>
            ELSE /\ flights' = Landed(flights, Flight("batch", "analyze", files[cursor]))
                 /\ AfterFile(FALSE)
       \/ \* fetch rejects
          /\ flights' = Landed(flights, Flight("batch", "analyze", files[cursor]))
          /\ AfterFile(FALSE)

\* the create request of handleBatch settles
BatchCreateSettles ==
    /\ bpc = "create"
    /\ flights' = Landed(flights, Flight("batch", "create", files[cursor]))
    /\ UNCHANGED <<analyzeVars, viewVars, dbVars, putVars, kpc>>
    /\ \/ /\ CreateHandled(BatchBodies[analysisData.batch, thumbnail])
          /\ AfterFile(ApiRequestOk(CreateStatus(BatchBodies[analysisData.batch, thumbnail])))
       \/ \* the request does not reach the server
          /\ UNCHANGED itemVars
          /\ AfterFile(FALSE)

\* handleCapture without its finally block
CaptureEndsUnreset(title) ==
    /\ toast' = Toast(title, 0, 0)
    /\ kpc' = "idle"
    /\ analysisData' = [analysisData EXCEPT !.capture = JUndef]
    /\ UNCHANGED <<analyzing, progress>>

\* handleCapture from its catch or the end of its try through its finally
CaptureEnds(title) ==
    /\ toast' = Toast(title, 0, 0)
    /\ analyzing' = FALSE
    /\ progress' = Fraction(0, 1)
    /\ kpc' = "idle"
    /\ analysisData' = [analysisData EXCEPT !.capture = JUndef]

\* handleCapture up to the fetch of the upload
HandleCapture ==
    \E file \in BOOLEAN :
        /\ kpc = "idle"
        /\ IF ~file
           THEN UNCHANGED vars
           ELSE /\ analyzing' = TRUE
                /\ progress' = Fraction(10, 1)
                /\ flights' = flights \cup {Flight("capture", "analyze", 0)}
                /\ kpc' = "analyze"
                /\ UNCHANGED <<batchLocals, analysisData, processingCount, toast>>
                /\ UNCHANGED <<itemVars, analyzeVars, viewVars, dbVars, putVars>>

\* the upload of handleCapture settles
CaptureAnalyzeSettles ==
    /\ kpc = "analyze"
    /\ UNCHANGED <<itemVars, analyzeVars, viewVars, dbVars, putVars, batchLocals, processingCount>>
    /\ \/ \E res \in PageAnswers :
            IF ResOk(res.status)
            THEN /\ analysisData' = [analysisData EXCEPT !.capture = PagePayload[res]]
                 /\ progress' = Fraction(70, 1)
                 /\ kpc' = "create"
                 /\ UNCHANGED <<analyzing, toast>>
            ELSE CaptureEnds("Error")
       \/ \* fetch rejects
          CaptureEnds("Error")
    /\ flights' = Landed(flights, Flight("capture", "analyze", 0))
                      \cup (IF kpc' = "create" THEN {Flight("capture", "create", 0)} ELSE {})

\* the create request of handleCapture settles
CaptureCreateSettles ==
    /\ kpc = "create"
    /\ flights' = Landed(flights, Flight("capture", "create", 0))
    /\ UNCHANGED <<analyzeVars, viewVars, dbVars, putVars, batchLocals, processingCount>>
    /\ \/ /\ CreateHandled(CaptureBodies[analysisData.capture])
          /\ IF ApiRequestOk(CreateStatus(CaptureBodies[analysisData.capture]))
             THEN CaptureEnds("Item identified!")
             ELSE CaptureEnds("Error")
       \/ \* the request does not reach the server
          /\ UNCHANGED itemVars
          /\ CaptureEnds("Error")

NextClient ==
    \/ HandleBatch
    \/ ResizeImageSettles
    \/ BatchAnalyzeSettles
    \/ BatchCreateSettles
    \/ HandleCapture
    \/ CaptureAnalyzeSettles
    \/ CaptureCreateSettles

\* the page with both handlers, which may run at the same time
SpecClient ==
    Init /\ [][NextClient]_vars

NextBatch ==
    \/ HandleBatch
    \/ ResizeImageSettles
    \/ BatchAnalyzeSettles
    \/ BatchCreateSettles

\* batch uploads alone, every promise that handleBatch awaits settling
SpecBatchFair ==
    /\ Init
    /\ [][NextBatch]_vars
    /\ WF_vars(ResizeImageSettles)
    /\ WF_vars(BatchAnalyzeSettles)
    /\ WF_vars(BatchCreateSettles)

(***************************************************************************)
(* Home: filteredAndSortedItems, the filter-then-sort view of the fetched  *)
(* list.  A piece of a string stands for one character of it.              *)
(***************************************************************************)
\* the pieces in collation order: a lower case letter before its upper case
Collation ==
    <<WS, "19", "99", "a", "A", "active", "ACTIVE", "b", "B", "sold", "SOLD",
      "v", "V", "x", "X", "z">>

\* toLowerCase of one piece
LowerPiece(c) ==
    CASE c = "A" -> "a"
      [] c = "B" -> "b"
      [] c = "V" -> "v"
      [] c = "X" -> "x"
      [] c = "ACTIVE" -> "active"
      [] c = "SOLD" -> "sold"
      [] OTHER -> c

\* the string left as it is
ToLowerCaseKeep(w) ==
    w

\* String.prototype.toLowerCase
ToLowerCase(w) ==
    [i \in 1..Len(w) |-> LowerPiece(w[i])]

\* String.prototype.includes
Includes(w, q) ==
    \E i \in 0..(Len(w) - Len(q)) : SubSeq(w, i + 1, i + Len(q)) = q

\* v?.toLowerCase().includes(query)
FieldIncludes(v, query) ==
    v.t = "string" /\ Includes(ToLowerCase(v.s), query)

\* the predicate of result.filter
Matches(item, query) ==
    \/ FieldIncludes(item["name"], query)
    \/ FieldIncludes(item["brand"], query)
    \/ FieldIncludes(item["year"], query)
    \/ /\ item["vibes"].t = "array"
       /\ \E i \in 1..Len(item["vibes"].el) :
             Includes(ToLowerCase(item["vibes"].el[i][2].s), query)

\* Array.prototype.filter: the elements that pass, in their order
RECURSIVE Filter(_, _)
Filter(list, query) ==
    IF list = <<>> THEN <<>>
    ELSE IF Matches(Head(list), query)
         THEN <<Head(list)>> \o Filter(Tail(list), query)
         ELSE Filter(Tail(list), query)

\* new Date(iso).getTime()
GetTime(v) ==
    NumeralValue(v.s[2])

RankOf(c) ==
    CHOOSE i \in 1..Len(Collation) : Collation[i] = c

PrimaryRank(c) ==
    RankOf(LowerPiece(c))

\* lexicographic comparison of two strings by a rank of their pieces
RECURSIVE CompareBy(_, _, _)
CompareBy(x, y, primary) ==
    IF x = <<>> /\ y = <<>> THEN 0
    ELSE IF x = <<>> THEN -1
    ELSE IF y = <<>> THEN 1
    ELSE LET rx == IF primary THEN PrimaryRank(Head(x)) ELSE RankOf(Head(x))
             ry == IF primary THEN PrimaryRank(Head(y)) ELSE RankOf(Head(y))
         IN  IF rx < ry THEN -1
             ELSE IF rx > ry THEN 1
             ELSE CompareBy(Tail(x), Tail(y), primary)

\* String.prototype.localeCompare: by letters first, then by case
LocaleCompare(x, y) ==
    IF CompareBy(x, y, TRUE) # 0 THEN CompareBy(x, y, TRUE)
    ELSE CompareBy(x, y, FALSE)

\* v || ""
OrEmpty(v) ==
    IF Truthy(v) THEN v.s ELSE <<>>

\* the comparator of each sort option
Compare(sort, a, b) ==
    CASE sort = "newest" -> GetTime(b["addedAt"]) - GetTime(a["addedAt"])
      [] sort = "oldest" -> GetTime(a["addedAt"]) - GetTime(b["addedAt"])
      [] sort = "name-asc" -> LocaleCompare(OrEmpty(a["name"]), OrEmpty(b["name"]))
      [] sort = "name-desc" -> LocaleCompare(OrEmpty(b["name"]), OrEmpty(a["name"]))
      [] sort = "status" -> LocaleCompare(OrEmpty(a["status"]), OrEmpty(b["status"]))
      [] OTHER -> 0

\* r put into the sorted list s, after the elements it does not precede
RECURSIVE SortInsert(_, _, _)
SortInsert(r, sorted, sort) ==
    IF sorted = <<>> THEN <<r>>
    ELSE IF Compare(sort, r, Head(sorted)) < 0 THEN <<r>> \o sorted
    ELSE <<Head(sorted)>> \o SortInsert(r, Tail(sorted), sort)

\* Array.prototype.sort with a comparator: a stable sort
RECURSIVE Sort(_, _)
Sort(list, sort) ==
    IF list = <<>> THEN <<>>
    ELSE SortInsert(list[Len(list)], Sort(SubSeq(list, 1, Len(list) - 1), sort), sort)

\* the memo: a copy of items, filtered when the query is not blank, sorted
FilteredAndSorted(list, query, sort) ==
    IF Trim(query) # <<>>
    THEN Sort(Filter(list, ToLowerCase(query)), sort)
    ELSE Sort(list, sort)

\* a row as the list request delivers it: addedAt as an ISO string
Fetched(row) ==
    [row EXCEPT !["addedAt"] = ToISOString(row["addedAt"])]

\* rows the list request may deliver
ViewRows ==
    { Fetched(NewRow([name |-> JStr(<<"A", "b">>), brand |-> JStr(<<"x">>),
                      vibes |-> JArr(<<Element(JStr(<<"v">>)), Element(JStr(<<"B", "z">>))>>)],
                     1, 0)),
      Fetched(NewRow([name |-> JStr(<<"a">>), year |-> JStr(<<"19", "99">>),
                      status |-> JStr(<<"SOLD">>)], 2, 1)),
      Fetched(NewRow([name |-> JStr(<<"b", WS, "a">>), brand |-> JStr(<<"X">>)], 3, 1)) }

\* the lists the list request may deliver: rows of distinct ids
FetchedLists ==
    UNION {{l \in [1..n -> ViewRows] : \A i, j \in 1..n : i # j => l[i] # l[j]} :
              n \in 0..MaxListed}

SortOptions ==
    {"newest", "oldest", "name-asc", "name-desc", "status"}

Queries ==
    { <<>>, <<WS>>, <<"a">>, <<"A">>, <<"B">>, <<"V">>, <<"99">>, <<"X">>, <<"a", "b">>,
      <<WS, "a">>, <<"z", "z">> }

\* the list request delivers a list
FetchItems ==
    \E list \in FetchedLists :
        /\ items' = list
        /\ filteredAndSortedItems' = FilteredAndSorted(list, searchQuery, sortBy)
        /\ UNCHANGED <<searchQuery, sortBy>>
        /\ UNCHANGED <<itemVars, analyzeVars, clientVars, dbVars, putVars>>

\* the search box changes
SetSearchQuery ==
    \E query \in Queries :
        /\ searchQuery' = query
        /\ filteredAndSortedItems' = FilteredAndSorted(items, query, sortBy)
        /\ UNCHANGED <<items, sortBy>>
        /\ UNCHANGED <<itemVars, analyzeVars, clientVars, dbVars, putVars>>

\* the sort select changes
SetSortBy ==
    \E sort \in SortOptions :
        /\ sortBy' = sort
        /\ filteredAndSortedItems' = FilteredAndSorted(items, searchQuery, sort)
        /\ UNCHANGED <<items, searchQuery>>
        /\ UNCHANGED <<itemVars, analyzeVars, clientVars, dbVars, putVars>>

NextView ==
    \/ FetchItems
    \/ SetSearchQuery
    \/ SetSortBy

SpecView ==
    Init /\ [][NextView]_vars

(***************************************************************************)
(* use-items: useAnalyzeImage, with the server's analysis handler.         *)
(***************************************************************************)
\* z.string().optional()
OptionalString(v) ==
    v.t \in {"undefined", "string"}

\* api.analyze.upload.responses[200].parse does not throw
UploadResponseOK(data) ==
    /\ data.t = "object"
    /\ GetProp(data, <<"name">>).t = "string"
    /\ \A k \in {"brand", "edition", "year", "identifiers"} : OptionalString(GetProp(data, <<k>>))
    /\ \/ GetProp(data, <<"vibes">>).t = "undefined"
       \/ /\ GetProp(data, <<"vibes">>).t = "array"
          /\ \A i \in 1..Len(GetProp(data, <<"vibes">>).el) :
                GetProp(data, <<"vibes">>).el[i][2].t = "string"
    /\ GetProp(data, <<"ambientData">>).t \in {"undefined", "object"}

\* what res.json() gives the hook for each reply of the model
HookData ==
    [r \in Replies |-> JSONParse(Answers[r].body).v]

\* the mutation of useAnalyzeImage settles: onSuccess invalidates the item
\* list, which is fetched again; onError only shows a toast
AnalyzeImageSettles ==
    /\ apc = "done"
    /\ apc' = "idle"
    /\ IF ResOk(aresp.status) /\ UploadResponseOK(HookData[reply])
       THEN /\ \E sc \in Scans(store) :
                 items' = [i \in 1..Len(store) |-> Fetched(OrderBy(RowsOf(store, sc))[i])]
            /\ filteredAndSortedItems' = FilteredAndSorted(items', searchQuery, sortBy)
            /\ toast' = Toast("Analysis Complete", 0, 0)
       ELSE /\ toast' = Toast("Analysis Failed", 0, 0)
            /\ UNCHANGED <<items, filteredAndSortedItems>>
    /\ UNCHANGED <<itemVars, genAI, tried, reply, aresp, searchQuery, sortBy>>
    /\ UNCHANGED <<dbVars, putVars>>
    /\ UNCHANGED <<files, cursor, bpc, thumbnail, done, successCount, kpc, analysisData,
                   flights, analyzing, progress, processingCount>>

NextHook ==
    \/ AnalyzeUpload
    \/ ModelFails
    \/ ModelSucceeds
    \/ AnalyzeImageSettles

\* uploads through the hook against a server whose database may hold a row
SpecHook ==
    InitStocked /\ [][NextHook]_vars

(***************************************************************************)
(* db: getPool, getDb and the db object.  The module's code runs without   *)
(* an await, so every access is one step.  A result is the module state    *)
(* after the call with whether the call threw.                             *)
(***************************************************************************)
DbState(threw, p, d, c) ==
    [threw |-> threw, pool |-> p, drizzleDb |-> d, created |-> c]

\* getPool without the test of pool: a pool per call
getPoolEach(st) ==
    IF ~databaseUrl
    THEN [st EXCEPT !.threw = TRUE]
    ELSE [st EXCEPT !.pool = st.created.pools + 1,
                    !.created.pools = st.created.pools + 1]

\* getPool
getPool(st) ==
    IF st.pool # 0 THEN st
    ELSE IF ~databaseUrl
    THEN [st EXCEPT !.threw = TRUE]
    ELSE [st EXCEPT !.pool = st.created.pools + 1,
                    !.created.pools = st.created.pools + 1]

\* getDb
getDb(st) ==
    IF st.drizzleDb # NoHandle THEN st
    ELSE IF getPool(st).threw THEN getPool(st)
    ELSE [getPool(st) EXCEPT
            !.drizzleDb = [n |-> st.created.handles + 1, client |-> getPool(st).pool],
            !.created.handles = st.created.handles + 1]

\* the getters of db: select, insert, update and delete call getDb twice
DbGetters ==
    {"select", "insert", "update", "delete", "query"}

DbGetter(prop, st) ==
    IF prop = "query" \/ getDb(st).threw THEN getDb(st) ELSE getDb(getDb(st))

ModuleState ==
    DbState(FALSE, pool, drizzleDb, created)

\* the module state becomes st, the access is recorded
Accessed(via, st) ==
    /\ dbUse.count < MaxAccesses
    /\ pool' = st.pool
    /\ drizzleDb' = st.drizzleDb
    /\ created' = st.created
    /\ dbUse' = DbUse(via, st.threw,
                      IF st.threw THEN 0 ELSE st.pool,
                      IF st.threw \/ via = "pool" THEN NoHandle ELSE st.drizzleDb,
                      dbUse.count + 1)
    /\ UNCHANGED <<databaseUrl, putVars>>
    /\ UNCHANGED <<itemVars, analyzeVars, clientVars, viewVars>>

\* pool(), the exported getPool
PoolCalled ==
    Accessed("pool", getPool(ModuleState))

\* getDb()
GetDbCalled ==
    Accessed("getDb", getDb(ModuleState))

\* db.select, db.insert, db.update, db.delete, db.query
DbGetterRead ==
    \E prop \in DbGetters : Accessed(prop, DbGetter(prop, ModuleState))

\* process.env.DATABASE_URL is set or removed
SetDatabaseUrl ==
    /\ databaseUrl' = ~databaseUrl
    /\ UNCHANGED <<pool, drizzleDb, created, dbUse, putVars>>
    /\ UNCHANGED <<itemVars, analyzeVars, clientVars, viewVars>>

\* the process started with or without DATABASE_URL
InitDb ==
    /\ store = << >>
    /\ nextId = 1
    /\ clock = 0
    /\ req = Request("none", 0, NoBody, <<>>)
    /\ resp = Response("none", 0, <<>>, "")
    /\ before = << >>
    /\ thrown = FALSE
    /\ HomeMounted
    /\ databaseUrl \in BOOLEAN
    /\ ModuleLoaded
    /\ puts = NoPuts
    /\ genAI = TRUE
    /\ apc = "idle"
    /\ tried = <<>>
    /\ reply = NoReply
    /\ aresp = AResponse(0, <<>>, "")

NextDb ==
    \/ PoolCalled
    \/ GetDbCalled
    \/ DbGetterRead
    \/ SetDatabaseUrl

SpecDb ==
    InitDb /\ [][NextDb]_vars

(***************************************************************************)
(* PUT /api/items/:id from two clients at once.  The handler runs up to    *)
(* its await of storage.updateItem when the request arrives; the UPDATE    *)
(* statement takes effect, as one statement, when that promise settles.    *)
(***************************************************************************)
\* bodies of the updates: single fields, two fields, ill-typed, empty
PutBodies ==
    { [name |-> JStr(<<"b">>)],
      [brand |-> JStr(<<"y">>)],
      [year |-> JStr(<<"2001">>), qty |-> JNum(2)],
      [name |-> JStr(<<"c">>), brand |-> JStr(<<"x">>)],
      [name |-> JNum(7)],
      NoBody }

\* the request of client c arrives: parse, then updateItem is called
PutArrives(c) ==
    \E id \in 1..MaxItems, body \in PutBodies :
        /\ puts[c].pc = "idle"
        /\ puts' = [puts EXCEPT ![c] =
                        IF ~PartialParseOK(body) \/ SchemaKeys(body) = {}
                        THEN Put("done", id, body, 400)
                        ELSE Put("updating", id, body, 0)]
        /\ UNCHANGED <<itemVars, analyzeVars, clientVars, viewVars, dbVars>>

\* the UPDATE of client c is executed and the handler answers
PutSettles(c) ==
    /\ puts[c].pc = "updating"
    /\ puts' = [puts EXCEPT ![c] = Put("done", puts[c].id, puts[c].body, 200)]
    /\ req' = Request("update", puts[c].id, puts[c].body, <<>>)
    /\ before' = store
    /\ store' = UpdateRow(store, puts[c].id, Strip(puts[c].body))
    /\ resp' = Response("update", 200,
                        SelectById(UpdateRow(store, puts[c].id, Strip(puts[c].body)),
                                   puts[c].id), "")
    /\ thrown' = FALSE
    /\ UNCHANGED <<nextId, clock>>
    /\ UNCHANGED <<analyzeVars, clientVars, viewVars, dbVars>>

NextPuts ==
    \/ \E c \in Clients : PutArrives(c)
    \/ \E c \in Clients : PutSettles(c)

\* one update from each of two clients against a database that may hold a row
SpecPuts ==
    InitStocked /\ [][NextPuts]_vars

(***************************************************************************)
(* Home: the inline name, brand and year inputs of an item card.           *)
(***************************************************************************)
\* the dash shown for a value that is missing
DASH ==
    "dash"

InlineFields ==
    {"name", "brand", "year"}

\* defaultValue of the input: item.name, item.brand || dash, item.year || dash
DefaultValue(item, field) ==
    IF field = "name" THEN item["name"].s
    ELSE IF Truthy(item[field]) THEN item[field].s
    ELSE <<DASH>>

\* the list request as the page's query makes it
ListFetched(tbl, sc) ==
    [i \in 1..Len(sc) |-> Fetched(OrderBy(RowsOf(tbl, sc))[i])]

\* the item query is fetched
QueryFetches ==
    /\ \E sc \in Scans(store) : items' = ListFetched(store, sc)
    /\ filteredAndSortedItems' = FilteredAndSorted(items', searchQuery, sortBy)
    /\ UNCHANGED <<searchQuery, sortBy>>
    /\ UNCHANGED <<itemVars, analyzeVars, clientVars, dbVars, putVars>>

\* an inline input loses the focus with its text as it was rendered:
\* updateMutation sends the text, and on success the list is fetched again
InputBlurred ==
    \E i \in 1..Len(items), field \in InlineFields :
        /\ UpdateHandled(items[i]["id"].n,
                         [k \in {field} |-> JStr(DefaultValue(items[i], field))])
        /\ IF ApiRequestOk(resp'.status)
           THEN /\ \E sc \in Scans(store') : items' = ListFetched(store', sc)
                /\ filteredAndSortedItems' = FilteredAndSorted(items', searchQuery, sortBy)
           ELSE UNCHANGED <<items, filteredAndSortedItems>>
        /\ UNCHANGED <<searchQuery, sortBy>>
        /\ UNCHANGED <<analyzeVars, clientVars, dbVars, putVars>>

NextInline ==
    \/ DeleteItem
    \/ QueryFetches
    \/ InputBlurred

\* a second item of the database: a brand, no year
BrandedItem ==
    [name |-> JStr(<<"b">>), brand |-> JStr(<<"x">>)]

\* the server runs against a table of no, one or two rows
InitInline ==
    /\ \/ store = << >> /\ nextId = 1
       \/ store = InsertRow(<< >>, NewRow(AnalysedItem, 1, 0)) /\ nextId = 2
       \/ /\ store = InsertRow(InsertRow(<< >>, NewRow(AnalysedItem, 1, 0)),
                                NewRow(BrandedItem, 2, 0))
          /\ nextId = 3
    /\ clock = 0
    /\ req = Request("none", 0, NoBody, <<>>)
    /\ resp = Response("none", 0, <<>>, "")
    /\ before = store
    /\ thrown = FALSE
    /\ HomeMounted
    /\ databaseUrl = TRUE
    /\ ModuleLoaded
    /\ puts = NoPuts
    /\ genAI = TRUE
    /\ apc = "idle"
    /\ tried = <<>>
    /\ reply = NoReply
    /\ aresp = AResponse(0, <<>>, "")

\* the item cards of the page
SpecInline ==
    InitInline /\ [][NextInline]_vars

(***************************************************************************)
(* Claims about the item store and its endpoints.                          *)
(***************************************************************************)
Positions(seq) ==
    1..Len(seq)

ListedIds(rows) ==
    {rows[i]["id"].n : i \in Positions(rows)}

\* C1: list() returns every stored item exactly once, ordered by addedAt
\* descending (an earlier entry has addedAt >= a later one), whatever the
\* order in which the rows were inserted or are delivered by the scan.
C1_ListNewestFirst ==
    resp.op = "list" =>
        /\ resp.status = 200
        /\ Len(resp.body) = Cardinality(DOMAIN store)
        /\ \A id \in DOMAIN store :
              Cardinality({i \in Positions(resp.body) : resp.body[i] = store[id]}) = 1
        /\ \A i, j \in Positions(resp.body) :
              i < j => resp.body[i]["addedAt"].n >= resp.body[j]["addedAt"].n

\* a list of two items of different age whose scan delivered the older first
C1_Witness ==
    /\ resp.op = "list"
    /\ Len(resp.body) = 2
    /\ resp.body[1]["addedAt"].n > resp.body[2]["addedAt"].n
    /\ req.scan[1] = resp.body[2]["id"].n

\* C2: id and addedAt are assigned at creation and never change: no request,
\* whatever its body (also one carrying id or addedAt keys), changes the id
\* or the addedAt of an item it found in the store.
C2_IdAndAddedAtImmutable ==
    /\ \A id \in DOMAIN store : store[id]["id"].n = id
    /\ \A id \in DOMAIN store \cap DOMAIN before :
          /\ store[id]["id"] = before[id]["id"]
          /\ store[id]["addedAt"] = before[id]["addedAt"]

\* an accepted update of an existing item whose body carried id and addedAt
C2_Witness ==
    /\ req.op = "update"
    /\ {"id", "addedAt"} \subseteq DOMAIN req.body
    /\ req.id \in DOMAIN before
    /\ resp.status = 200
    /\ before[req.id]["addedAt"] # req.body["addedAt"]
    /\ store[req.id] # before[req.id]

\* C3: updating an id that is not in the store fails with NotFound (404, not
\* a success status) and leaves the store unchanged.
C3_UpdateMissingIsNotFound ==
    (req.op = "update" /\ req.id \notin DOMAIN before) =>
        /\ resp.status = 404
        /\ store = before

\* C4: updating an existing id with a partial field set changes exactly the
\* supplied fields to the supplied values and returns the updated record;
\* the other fields keep their values and the other items are unchanged.
C4_UpdateSuppliedFieldsOnly ==
    (req.op = "update" /\ req.id \in DOMAIN before /\ PartialParseOK(req.body)) =>
        /\ resp.status = 200
        /\ DOMAIN store = DOMAIN before
        /\ resp.body = <<store[req.id]>>
        /\ \A c \in Columns :
              store[req.id][c] = IF c \in DOMAIN req.body \cap InsertKeys
                                 THEN req.body[c] ELSE before[req.id][c]
        /\ \A i \in DOMAIN before \ {req.id} : store[i] = before[i]

\* C5 as stated: a create whose body contains the required name responds 201
\* with the persisted record.
C5_CreateWithNameSucceeds ==
    (req.op = "create" /\ "name" \in DOMAIN req.body) =>
        /\ resp.status = 201
        /\ Len(resp.body) = 1

\* C5 (amended): a create whose body satisfies the item schema (the required
\* name as a string, every other supplied field of its column's type)
\* responds 201 with the persisted record, which carries a newly generated id
\* and the server's addedAt and the supplied fields; the record is afterwards
\* returned by get(id) and contained in list().
C5_CreateValidBodyPersists ==
    (req.op = "create" /\ ParseOK(req.body)) =>
        /\ resp.status = 201
        /\ Len(resp.body) = 1
        /\ LET row == resp.body[1]
               id == row["id"].n
           IN  /\ id \notin DOMAIN before
               /\ id = nextId - 1
               /\ row["addedAt"].n = clock
               /\ \A k \in DOMAIN req.body \cap InsertKeys : row[k] = req.body[k]
               /\ GetResponse(store, id) = Response("get", 200, <<row>>, "")
               /\ \A sc \in Scans(store) :
                     \E i \in Positions(OrderBy(RowsOf(store, sc))) :
                         OrderBy(RowsOf(store, sc))[i] = row
               /\ \A i \in DOMAIN before : store[i] = before[i]

\* a second item created from a body that also carried id and addedAt
C5_Witness ==
    /\ req.op = "create"
    /\ resp.status = 201
    /\ "id" \in DOMAIN req.body
    /\ before # << >>
    /\ resp.body[1]["id"] # req.body["id"]

CreateBodyFails(body) ==
    \/ "name" \notin DOMAIN body
    \/ \E k \in DOMAIN body \cap InsertKeys : ~FieldOK(k, body[k])

UpdateBodyFails(body) ==
    \E k \in DOMAIN body \cap InsertKeys : ~FieldOK(k, body[k])

\* C6: a create or update whose body fails the item schema (for create: also
\* name omitted) is answered 400 and never reaches the store: the stored
\* items and all their fields are the same before and after.
C6_InvalidBodyRejected ==
    (\/ req.op = "create" /\ CreateBodyFails(req.body)
     \/ req.op = "update" /\ UpdateBodyFails(req.body)) =>
        /\ resp.status = 400
        /\ store = before

\* a create without name answered 400 with items in the store
C6_Witness ==
    /\ req.op = "create"
    /\ "name" \notin DOMAIN req.body
    /\ resp.status = 400
    /\ store # << >>

AllFailed(calls) ==
    /\ Len(calls) = Len(modelsToTry)
    /\ \A i \in Positions(calls) : ~calls[i].ok

LastSucceeded(calls) ==
    calls # <<>> /\ calls[Len(calls)].ok

AnalysisFailed(r) ==
    r.status = 500 /\ r.message = "Analysis failed"

\* the models are called in list order, each at most once, a model only after
\* every earlier one failed, none after a success
CascadeInOrder ==
    /\ Len(tried) <= Len(modelsToTry)
    /\ \A i \in Positions(tried) : tried[i].model = modelsToTry[i]
    /\ \A i, j \in Positions(tried) : i < j => ~tried[i].ok
    /\ \A i, j \in Positions(tried) : i # j => tried[i].model # tried[j].model
    /\ apc = "calling" =>
          /\ Len(tried) < Len(modelsToTry)
          /\ \A i \in Positions(tried) : ~tried[i].ok
    /\ LastSucceeded(tried) => apc = "done"

\* C8 as stated: the models are tried in list order up to the first success,
\* each at most once, and only if every model call fails does the request
\* surface an AnalysisFailed error.
C8_FailedOnlyIfAllModelsFailed ==
    /\ CascadeInOrder
    /\ (apc = "done" /\ AllFailed(tried)) => AnalysisFailed(aresp)
    /\ (apc = "done" /\ AnalysisFailed(aresp)) => AllFailed(tried)

\* C8 (amended): the models are tried in list order up to the first success,
\* each at most once, a model only after every earlier one failed; if every
\* model call fails the request surfaces an AnalysisFailed error, and it
\* surfaces one otherwise only after a call has succeeded (whose response
\* could then not be used), never while models remain untried.
C8_CascadeStopsAtFirstSuccess ==
    /\ CascadeInOrder
    /\ (apc = "done" /\ AllFailed(tried)) => AnalysisFailed(aresp)
    /\ (apc = "done" /\ AnalysisFailed(aresp)) =>
          AllFailed(tried) \/ LastSucceeded(tried)

\* the third model answered after two failures and the request succeeded
C8_Witness ==
    /\ apc = "done"
    /\ Len(tried) = 3
    /\ tried[3].ok
    /\ ~tried[1].ok /\ ~tried[2].ok
    /\ aresp.status = 200

\* C9: when all model attempts fail the request is answered 500 with the
\* generic failure message, and no step of the analysis request creates an
\* item: the store is the same before and after each of its steps.
C9_AllFailedCreatesNoItem ==
    [][ /\ (<<apc, tried, reply, aresp>>' # <<apc, tried, reply, aresp>>) =>
              (store' = store /\ nextId' = nextId)
        /\ (apc' = "done" /\ AllFailed(tried')) =>
              (aresp'.status = 500 /\ aresp'.message = "Analysis failed"
               /\ aresp'.body = <<>>) ]_vars

\* every model failed while the store held an item
C9_Witness ==
    /\ apc = "done"
    /\ AllFailed(tried)
    /\ aresp.status = 500
    /\ store # << >>

\* C10: a JSON value sent in a fenced code block, with or without the json
\* tag, gives the same response as the same value sent bare.
C10_FencedSameAsBare ==
    (apc = "done" /\ reply.wrap \in {"fence", "json"}) =>
        aresp = AnalyzeReply(Stringify(reply.doc))

\* the content between two fences, without a leading json tag
FencedContent(text, i, j) ==
    IF i + 1 < j /\ text[i + 1] = "json"
    THEN SubSeq(text, i + 2, j - 1)
    ELSE SubSeq(text, i + 1, j - 1)

\* the text contains a fenced block whose content is valid JSON
HasValidFencedBlock(text) ==
    \E i, j \in FencePositions(text) :
        i < j /\ JSONParse(Trim(FencedContent(text, i, j))).ok

\* replies that are neither valid JSON nor hold a fenced block of valid JSON
Unparseable ==
    {r \in Replies : ~JSONParse(r.text).ok /\ ~HasValidFencedBlock(r.text)}

\* replies that are valid JSON as they stand, with the payload of their value
DirectPayload ==
    [r \in {q \in Replies : JSONParse(q.text).ok} |->
        Stringify(Normalized(JSONParse(r.text).v))]

\* C11: a response text that is valid JSON is taken as it stands, whatever
\* fenced block it holds; a text that is neither valid JSON nor contains a
\* fenced block whose content is valid JSON ends the request as AnalysisFailed
\* (500, no payload), never as a 200.
C11_UnparseableIsAnalysisFailed ==
    (apc = "done" /\ reply # NoReply) =>
        /\ reply \in Unparseable =>
              aresp = AResponse(500, <<>>, "Analysis failed")
        /\ (reply \in DOMAIN DirectPayload /\ aresp.status = 200) =>
              aresp.body = DirectPayload[reply]

\* a text that is no JSON and whose fenced block holds no JSON was answered 500
C11_Witness ==
    /\ apc = "done"
    /\ reply.wrap = "raw"
    /\ FenceMatch(reply.text).found
    /\ aresp.status = 500

\* what each reply was parsed to, and the payload answered for it
RawData ==
    [r \in Replies |-> ParseResponse(r.text).v]

Payload ==
    [r \in Replies |-> JSONParse(Answers[r].body).v]

ObjectTyped(v) ==
    v.t \in {"object", "array"}

\* identifiers, vibes and ambientData of the payload for the raw output
CoercionsHold(data, payload) ==
    /\ ObjectTyped(GetProp(data, <<"identifiers">>)) =>
          GetProp(payload, <<"identifiers">>) =
              JStr(Stringify(GetProp(data, <<"identifiers">>)))
    /\ GetProp(payload, <<"vibes">>) =
          IF GetProp(data, <<"vibes">>).t = "array"
          THEN GetProp(data, <<"vibes">>) ELSE JArr(<<>>)
    /\ GetProp(payload, <<"ambientData">>).t = "object"
    /\ data.t = "object" =>
          \A i \in Positions(data.el) :
              GetProp(GetProp(payload, <<"ambientData">>), data.el[i][1]) = data.el[i][2]

NameMissing(data) ==
    GetProp(data, <<"name">>).t \in {"undefined", "null"}

\* missing, or a value that counts as false: null, the empty string, zero
NameMissingOrFalsy(data) ==
    \/ NameMissing(data)
    \/ GetProp(data, <<"name">>) = JStr(<<>>)
    \/ GetProp(data, <<"name">>) = JNum(0)

\* C12 as stated: for every parsed model output the payload has identifiers
\* serialized to a string when the model's is object-typed, name "Unknown
\* Item" when the model's name is missing and the model's name otherwise,
\* vibes the model's list or else the empty list, and ambientData holding
\* every field of the raw output with its value.
C12_NameDefaultsOnlyWhenMissing ==
    (apc = "done" /\ aresp.status = 200) =>
        /\ CoercionsHold(RawData[reply], Payload[reply])
        /\ GetProp(Payload[reply], <<"name">>) =
              IF NameMissing(RawData[reply]) THEN JStr(<<"Unknown Item">>)
              ELSE GetProp(RawData[reply], <<"name">>)

\* C12 (amended): as stated, except that name is "Unknown Item" whenever the
\* model's name is missing or counts as false (null, the empty string, zero,
\* false), and the model's name otherwise.
C12_NameDefaultsWhenFalsy ==
    (apc = "done" /\ aresp.status = 200) =>
        /\ CoercionsHold(RawData[reply], Payload[reply])
        /\ GetProp(Payload[reply], <<"name">>) =
              IF NameMissingOrFalsy(RawData[reply]) THEN JStr(<<"Unknown Item">>)
              ELSE GetProp(RawData[reply], <<"name">>)

\* a fenced output without name and with an identifiers object was normalized
C12_Witness ==
    /\ apc = "done"
    /\ aresp.status = 200
    /\ reply.wrap = "json"
    /\ GetProp(RawData[reply], <<"name">>).t = "undefined"
    /\ GetProp(RawData[reply], <<"identifiers">>).t = "object"
    /\ GetProp(Payload[reply], <<"identifiers">>).t = "string"
    /\ GetProp(Payload[reply], <<"name">>) = JStr(<<"Unknown Item">>)

\* C14: without API credentials every analysis request is answered 500, with
\* or without an image, no model is called for it and no step of it creates
\* an item.
C14_NoCredentialsNoCall ==
    /\ [](~genAI =>
            /\ tried = <<>>
            /\ reply = NoReply
            /\ apc # "calling"
            /\ apc = "done" =>
                  aresp = AResponse(500, <<>>, "AI not configured - missing API key"))
    /\ [][(~genAI /\ <<apc, tried, reply, aresp>>' # <<apc, tried, reply, aresp>>) =>
            /\ store' = store
            /\ nextId' = nextId
            /\ apc' = "done"
            /\ aresp'.status = 500]_vars

\* an analysis request answered 500 for want of credentials, items in the store
C14_Witness ==
    /\ ~genAI
    /\ apc = "done"
    /\ aresp.status = 500
    /\ store # << >>

(***************************************************************************)
(* Claims about datastore failures and the export.                         *)
(***************************************************************************)
\* C13: a datastore failure during an item endpoint or the export is answered
\* with status 500: never with a 4xx status, never left unanswered.
C13_DatastoreFailureIs500 ==
    thrown => resp.status = 500

\* the entries of an export stand for the stored items one to one, in order
ExportedFrom(entries, order) ==
    /\ Len(entries) = Len(order)
    /\ \A i \in Positions(entries) :
          /\ entries[i].name = store[order[i]]["name"]
          /\ entries[i].qty = store[order[i]]["qty"]
          /\ entries[i].status = store[order[i]]["status"]
          /\ entries[i].addedAt.s = <<"T", Numerals[store[order[i]]["addedAt"].n]>>
          /\ entries[i].ambient_data.t = "object"
    /\ \A i, j \in Positions(order) :
          i < j => store[order[i]]["addedAt"].n >= store[order[j]]["addedAt"].n

\* C18: the export is an array with exactly one entry per stored item, newest
\* first as list() orders them, each entry with an ambient_data sub-object;
\* the export leaves the store unchanged.
C18_ExportOnePerItem ==
    (req.op = "export" /\ ~thrown) =>
        /\ resp.status = 200
        /\ store = before
        /\ \E order \in Scans(store) : ExportedFrom(resp.body, order)

\* an export of two items of different age, the scan delivering the older
\* first, one of them with a bag of its own
C18_Witness ==
    /\ req.op = "export"
    /\ ~thrown
    /\ Len(resp.body) = 2
    /\ resp.body[1].addedAt # resp.body[2].addedAt
    /\ store[req.scan[1]]["addedAt"].n < store[req.scan[2]]["addedAt"].n
    /\ \E i \in 1..2 : GetProp(resp.body[i].ambient_data, <<"type">>) = JStr(<<"book">>)

(***************************************************************************)
(* Claims about the page's uploads.                                        *)
(***************************************************************************)
BatchFlights ==
    {f \in flights : f.by = "batch"}

\* C15: within one batch upload the files are gone through one at a time in
\* selection order: at most one request of the batch is in flight, it belongs
\* to the file the loop stands at, every earlier file is over (done counts
\* them), and the loop moves from a file to the next one only.
C15_BatchSequential ==
    /\ [](/\ Cardinality(BatchFlights) <= 1
          /\ bpc \in {"analyze", "create"} =>
                BatchFlights = {Flight("batch", bpc, files[cursor])}
          /\ bpc \in {"idle", "resize"} => BatchFlights = {}
          /\ bpc # "idle" =>
                /\ cursor \in 1..Len(files)
                /\ files[cursor] = cursor
                /\ done = cursor - 1)
    /\ [][(bpc # "idle" /\ bpc' # "idle" /\ cursor' # cursor) =>
            /\ cursor' = cursor + 1
            /\ bpc' = "resize"
            /\ BatchFlights' = {}]_vars

\* the create request of the second file is in flight after the first file
\* ended in an item
C15_Witness ==
    /\ bpc = "create"
    /\ cursor = 2
    /\ successCount = 1
    /\ Cardinality(DOMAIN store) = 1

\* C16: a step of one file that fails (resize, upload or create) neither
\* ends the batch nor undoes anything: the loop goes on to the next file, the
\* batch ends only when every file has been gone through, and no step of the
\* batch removes or changes an item that is in the store.
C16_BatchFailuresIsolated ==
    [][ /\ \A id \in DOMAIN store : id \in DOMAIN store' /\ store'[id] = store[id]
        /\ (bpc # "idle" /\ done' = done + 1 /\ successCount' = successCount
                /\ cursor < Len(files)) =>
              (bpc' = "resize" /\ cursor' = cursor + 1)
        /\ (bpc # "idle" /\ bpc' = "idle") => done' = Len(files) ]_vars

\* the first file ended in an item, the second failed, the item is still there
C16_Witness ==
    /\ bpc = "idle"
    /\ Len(files) = 2
    /\ done = 2
    /\ successCount = 1
    /\ thrown = FALSE
    /\ req.op = "create"
    /\ resp.status = 400
    /\ Cardinality(DOMAIN store) = 1

\* C17: in single capture and in batch upload alike the item posted to the
\* create endpoint carries the resized thumbnail as imageUrl, and no stored
\* item holds the full image that the analysis endpoint returned.
C17_ThumbnailReplacesFullImage ==
    /\ req.op = "create" =>
          /\ "imageUrl" \in DOMAIN req.body
          /\ req.body["imageUrl"] = resizeImage(0)
    /\ \A id \in DOMAIN store : store[id]["imageUrl"] # imageDataUrl

\* C20: a batch of N files starts with done 0 and total N; done goes up by
\* exactly one with each file, failed or not, never beyond N, and is N when
\* the batch ends; the success count never exceeds done; and every batch
\* ends, with analyzing false, progress 0 and the counters back at 0/0.
C20_BatchCounters ==
    /\ [](/\ done \in 0..Len(files)
          /\ successCount <= done
          /\ toast.count <= toast.total)
    /\ [][ /\ (bpc = "idle" /\ bpc' # "idle") =>
                 /\ done' = 0
                 /\ successCount' = 0
                 /\ analyzing'
                 /\ processingCount' = [done |-> 0, total |-> Len(files')]
           /\ (bpc # "idle" /\ cursor' # cursor) => done' = done + 1
           /\ done' # done => (done' = done + 1 \/ (bpc = "idle" /\ done' = 0))
           /\ (bpc' # "idle" /\ processingCount' # processingCount) =>
                 processingCount' = [done |-> done', total |-> Len(files')]
           /\ (bpc # "idle" /\ bpc' = "idle") =>
                 /\ done' = Len(files)
                 /\ toast' = Toast("Batch complete", successCount', Len(files))
                 /\ ~analyzing'
                 /\ progress' = Fraction(0, 1)
                 /\ processingCount' = [done |-> 0, total |-> 0] ]_vars
    /\ (bpc # "idle") ~>
          (/\ bpc = "idle"
           /\ ~analyzing
           /\ progress = Fraction(0, 1)
           /\ processingCount = [done |-> 0, total |-> 0])

\* a batch of two files has ended, one of them failed
C20_Witness ==
    /\ bpc = "idle"
    /\ done = 2
    /\ toast = Toast("Batch complete", 1, 2)
    /\ processingCount = [done |-> 0, total |-> 0]
    /\ ~analyzing

(***************************************************************************)
(* Claims about the displayed list.                                        *)
(***************************************************************************)
Range(seq) ==
    {seq[i] : i \in 1..Len(seq)}

SameLetter(c, d) ==
    LowerPiece(c) = LowerPiece(d)

\* q occurs in w, case ignored
ContainsIgnoringCase(w, q) ==
    \E i \in 0..(Len(w) - Len(q)) : \A k \in 1..Len(q) : SameLetter(w[i + k], q[k])

Blank(q) ==
    \A i \in 1..Len(q) : q[i] = WS

\* the name, the brand, the year or a tag of the item contains the query
Found(item, q) ==
    \/ ContainsIgnoringCase(item["name"].s, q)
    \/ item["brand"].t = "string" /\ ContainsIgnoringCase(item["brand"].s, q)
    \/ item["year"].t = "string" /\ ContainsIgnoringCase(item["year"].s, q)
    \/ /\ item["vibes"].t = "array"
       /\ \E i \in 1..Len(item["vibes"].el) :
             ContainsIgnoringCase(item["vibes"].el[i][2].s, q)

\* C19: the displayed list holds, without repetition, exactly the fetched
\* items that the query finds (name, brand, year or a tag containing it, case
\* ignored), all of them when the query is blank, whatever the sort option;
\* changing the query or the sort option leaves the fetched list as it is.
C19_FilterThenSort ==
    /\ [](/\ Len(filteredAndSortedItems) = Cardinality(Range(filteredAndSortedItems))
          /\ Range(filteredAndSortedItems) =
                IF Blank(searchQuery) THEN Range(items)
                ELSE {r \in Range(items) : Found(r, searchQuery)})
    /\ [][(searchQuery' # searchQuery \/ sortBy' # sortBy) => items' = items]_vars

\* an upper case query found one of two items by a tag, the list sorted by name
C19_Witness ==
    /\ searchQuery = <<"V">>
    /\ sortBy = "name-desc"
    /\ Len(items) = 2
    /\ Len(filteredAndSortedItems) = 1
    /\ ~ContainsIgnoringCase(filteredAndSortedItems[1]["name"].s, searchQuery)

(***************************************************************************)
(* Claims about single-image capture.                                      *)
(***************************************************************************)
\* C21: when the upload of a capture fails, the capture sends no create
\* request and the store stays as it is; and whenever a capture ends, after
\* a failure of either request or after success, analyzing is false and
\* progress is 0.
C21_CaptureFailureLeavesNothing ==
    /\ [][(kpc = "analyze" /\ kpc' = "idle") =>
             /\ store' = store
             /\ nextId' = nextId
             /\ req' = req
             /\ Flight("capture", "create", 0) \notin flights']_vars
    /\ [][(kpc # "idle" /\ kpc' = "idle") =>
             (~analyzing' /\ progress' = Fraction(0, 1))]_vars
    /\ [](Flight("capture", "create", 0) \in flights =>
             (kpc = "create" /\ analysisData.capture \in PagePayloads))

\* a capture has ended in failure, no request ever having reached the item
\* endpoints, and the page shows no progress
C21_Witness ==
    /\ kpc = "idle"
    /\ toast = Toast("Error", 0, 0)
    /\ req.op = "none"
    /\ store = <<>>
    /\ ~analyzing
    /\ progress = Fraction(0, 1)

(***************************************************************************)
(* Claims about useAnalyzeImage.                                           *)
(***************************************************************************)
\* C22: when an upload through the hook succeeds, the item list fetched
\* again on the hook's invalidation holds an item that the store did not
\* hold before, with the identified name.
C22_AnalysisPersistsItem ==
    [][(apc = "done" /\ apc' = "idle" /\ toast' = Toast("Analysis Complete", 0, 0)) =>
          /\ Len(items') > Len(before)
          /\ \E i \in 1..Len(items') :
                items'[i]["name"] = GetProp(HookData[reply], <<"name">>)]_vars

(***************************************************************************)
(* Claims about the db module.                                             *)
(***************************************************************************)
\* C23: at most one pool and one drizzle handle are ever constructed; none
\* is constructed before the first access; once there is a pool or a handle
\* every later access finds and returns that same instance; and an access
\* made while there is no pool and DATABASE_URL is unset throws and leaves
\* the module without a pool and without a handle.
C23_LazySingleton ==
    /\ [](/\ created.pools <= 1
          /\ created.handles <= 1
          /\ dbUse.count = 0 => (pool = 0 /\ drizzleDb = NoHandle /\ created.pools = 0)
          /\ (dbUse.count > 0 /\ ~dbUse.threw) =>
                 /\ pool # 0
                 /\ dbUse.client = pool
                 /\ dbUse.via # "pool" => (dbUse.handle = drizzleDb /\ drizzleDb.client = pool))
    /\ [][/\ pool # 0 => pool' = pool
          /\ drizzleDb # NoHandle => drizzleDb' = drizzleDb
          /\ (dbUse'.count # dbUse.count /\ pool = 0 /\ ~databaseUrl) =>
                 (dbUse'.threw /\ pool' = 0 /\ drizzleDb' = NoHandle)]_vars

\* the third access, through db, found the pool and the handle of an earlier
\* one, DATABASE_URL having been removed since
C23_Witness ==
    /\ dbUse.count = 3
    /\ dbUse.via = "select"
    /\ ~dbUse.threw
    /\ ~databaseUrl
    /\ created = [pools |-> 1, handles |-> 1]

(***************************************************************************)
(* Claims about item ids.                                                  *)
(***************************************************************************)
\* C24: every stored item is stored under its own id, below the sequence
\* value; the sequence never goes back; and an item that a step adds to the
\* store was created by that step with the sequence value as its id, whatever
\* id its body carried.  So ids are unique, not chosen by the client, and an
\* id once assigned, deleted or not, is not assigned again.
C24_IdsUniqueNeverReused ==
    /\ [](\A id \in DOMAIN store : store[id]["id"].n = id /\ id < nextId)
    /\ [][/\ nextId' >= nextId
          /\ \A id \in DOMAIN store' \ DOMAIN store :
                /\ req'.op = "create"
                /\ resp'.status = 201
                /\ id = nextId
                /\ nextId' > id
                /\ resp'.body[1]["id"].n = id
          /\ (req'.op = "create" /\ resp'.status = 201) =>
                Cardinality(DOMAIN store') = Cardinality(DOMAIN store) + 1]_vars

\* after item 1 was deleted, a body carrying an id created item 2
C24_Witness ==
    /\ req.op = "create"
    /\ resp.status = 201
    /\ "id" \in DOMAIN req.body
    /\ before = << >>
    /\ DOMAIN store = {2}

(***************************************************************************)
(* Claims about concurrent updates.                                        *)
(***************************************************************************)
\* the item as the two updates found it
StockedRow ==
    NewRow(AnalysedItem, 1, 0)

DisjointPuts ==
    /\ \A c \in Clients : puts[c].pc = "done" /\ puts[c].status = 200
    /\ puts[1].id = puts[2].id
    /\ puts[1].id \in DOMAIN store
    /\ SchemaKeys(puts[1].body) \cap SchemaKeys(puts[2].body) = {}

\* C25: when two updates of the same existing item with disjoint fields have
\* both been answered, in whichever order they arrived and were executed, the
\* item holds each update's values in its fields and is otherwise as it was.
C25_DisjointUpdatesBothApply ==
    DisjointPuts =>
        /\ \A c \in Clients : \A k \in SchemaKeys(puts[c].body) :
              store[puts[c].id][k] = puts[c].body[k]
        /\ store[puts[1].id] =
              SetColumns(SetColumns(StockedRow, Strip(puts[1].body)), Strip(puts[2].body))
        /\ store[puts[1].id] =
              SetColumns(SetColumns(StockedRow, Strip(puts[2].body)), Strip(puts[1].body))

\* two updates with disjoint fields were both in progress at once, and the
\* one of client 2 was executed first
C25_Witness ==
    /\ DisjointPuts
    /\ req.body = puts[1].body
    /\ before[1] = SetColumns(StockedRow, Strip(puts[2].body))
    /\ "name" \in DOMAIN puts[1].body
    /\ "brand" \in DOMAIN puts[2].body

(***************************************************************************)
(* Claims about the analysis payload.                                      *)
(***************************************************************************)
\* C26: a create request that the page sends with the payload of a
\* successful analysis is answered 201, never 400.
C26_AnalysedPayloadIsCreated ==
    req.op = "create" => resp.status = 201

\* C27: a field among brand, edition, year and identifiers that the model
\* reported as null or left out is null in the payload.
C27_NullFieldsStayNull ==
    (apc = "done" /\ aresp.status = 200) =>
        \A k \in {"brand", "edition", "year", "identifiers"} :
            GetProp(RawData[reply], <<k>>).t \in {"null", "undefined"} =>
                GetProp(Payload[reply], <<k>>).t = "null"

\* C28: at most one call of a request returns, and it is the last call of
\* the request: once a model has answered, no further model is called for
\* that request, and an answer that is empty or cannot be parsed ends the
\* request with 500 although models remain untried.
C28_OneResponseParsed ==
    /\ [](/\ Cardinality({i \in Positions(tried) : tried[i].ok}) <= 1
          /\ \A i \in Positions(tried) : tried[i].ok => (i = Len(tried) /\ apc = "done")
          /\ (apc = "done" /\ reply # NoReply /\ (reply.text = <<>> \/ reply \in Unparseable)) =>
                (aresp.status = 500 /\ LastSucceeded(tried)))
    /\ [][LastSucceeded(tried) => (tried' = tried \/ tried' = <<>>)]_vars

\* the first model answered with text that is no JSON: 500, five models untried
C28_Witness ==
    /\ apc = "done"
    /\ Len(tried) = 1
    /\ tried[1].ok
    /\ reply.wrap = "raw"
    /\ reply.text # <<>>
    /\ aresp.status = 500

(***************************************************************************)
(* Claims about the inline inputs.                                         *)
(***************************************************************************)
\* C29: an inline input that loses the focus with its text unchanged leaves
\* the store as it is.
C29_BlurLeavesItemUnchanged ==
    [][req'.op = "update" => store' = store]_vars

(***************************************************************************)
(* Claims about uploads started while another is pending.                  *)
(***************************************************************************)
\* C30: while a capture or a batch has work pending, analyzing is true, and
\* at most one upload to the analysis endpoint is in flight.
C30_AnalyzingWhilePending ==
    /\ (bpc # "idle" \/ kpc # "idle") => analyzing
    /\ Cardinality({f \in flights : f.kind = "analyze"}) <= 1

====
